---- MODULE Spec2Model ----
(***************************************************************************)
(* A model of the job aggregation, deduplication and caching engine of     *)
(* CareerCompass (backend/job_cache.py, backend/job_api_services.py,       *)
(* backend/job_services.py).                                               *)
(*                                                                         *)
(* Python strings are sequences of one-character strings, so that lower(), *)
(* strip(), sorted() and the substring test are computed, not assumed.     *)
(* Time is time.time() in minutes.                                         *)
(***************************************************************************)
EXTENDS Integers, Sequences, FiniteSets, TLC

VARIABLES
    now,            \* time.time(), in minutes
    cache,          \* JobCache.cache: cache key -> entry
    stats,          \* JobCache.stats
    user_sessions,  \* UserSessionCache.user_sessions: user id -> session
    env,            \* the process configuration (os.getenv) of the source clients
    set_keys,       \* history: the cache keys JobCache.set was ever called for
    last,           \* the last operation: its name, inputs, result and the state before it
    lock,           \* JobCache.lock and UserSessionCache.lock: the thread holding each
    threads,        \* the request threads: the function each runs and its position in it
    gathering       \* search_all_apis in progress: its position and its search tasks

vars == <<now, cache, stats, user_sessions, env, set_keys, last, lock, threads, gathering>>

----------------------------------------------------------------------------
(* Python str: characters, str.lower, str.strip, comparison, containment.  *)

UpperChars == <<"A","B","C","D","E","F","G","H","I","J","K","L","M",
                "N","O","P","Q","R","S","T","U","V","W","X","Y","Z">>
LowerChars == <<"a","b","c","d","e","f","g","h","i","j","k","l","m",
                "n","o","p","q","r","s","t","u","v","w","x","y","z">>
DigitChars == <<"0","1","2","3","4","5","6","7","8","9">>

\* The characters of the model in code-point order (what sorted() compares).
CharOrder == <<" ", "+", ",", "-", ".", "/", ":">> \o DigitChars \o <<"@">>
             \o UpperChars \o <<"_">> \o LowerChars

Ord(c) == CHOOSE i \in 1..Len(CharOrder) : CharOrder[i] = c

IsSpace(c) == c = " "

\* the lower-case letter of each upper-case letter
LowerOf == [c \in {UpperChars[i] : i \in 1..Len(UpperChars)} |->
              LowerChars[CHOOSE i \in 1..Len(UpperChars) : UpperChars[i] = c]]

WordChars == {UpperChars[i] : i \in 1..Len(UpperChars)}
             \cup {LowerChars[i] : i \in 1..Len(LowerChars)}
             \cup {DigitChars[i] : i \in 1..Len(DigitChars)} \cup {"_"}

\* the characters \w matches
IsWordChar(c) == c \in WordChars

LowerChar(c) == IF c \in DOMAIN LowerOf THEN LowerOf[c] ELSE c

\* str.lower()
lower(s) == [i \in 1..Len(s) |-> LowerChar(s[i])]

SetMin(S) == CHOOSE x \in S : \A y \in S : x <= y
SetMax(S) == CHOOSE x \in S : \A y \in S : y <= x

\* str.strip()
strip(s) ==
    LET keep == {i \in 1..Len(s) : ~IsSpace(s[i])}
    IN  IF keep = {} THEN <<>> ELSE SubSeq(s, SetMin(keep), SetMax(keep))

\* a < b for Python strings
StrLess(a, b) ==
    \E i \in 1..(Len(b)) :
        /\ \A j \in 1..(i - 1) : j <= Len(a) /\ a[j] = b[j]
        /\ \/ i = Len(a) + 1
           \/ i <= Len(a) /\ Ord(a[i]) < Ord(b[i])

\* needle in haystack
Contains(hay, needle) ==
    \E i \in 1..(Len(hay) - Len(needle) + 1) :
        SubSeq(hay, i, i + Len(needle) - 1) = needle

RECURSIVE InsertSorted(_, _)
InsertSorted(x, s) ==
    IF s = <<>> THEN <<x>>
    ELSE IF StrLess(x, Head(s)) THEN <<x>> \o s
    ELSE <<Head(s)>> \o InsertSorted(x, Tail(s))

RECURSIVE sorted(_)
\* sorted(list of str)
sorted(s) ==
    IF s = <<>> THEN <<>>
    ELSE InsertSorted(s[Len(s)], sorted(SubSeq(s, 1, Len(s) - 1)))

----------------------------------------------------------------------------
(* JobCache (job_cache.py)                                                 *)

\* Optional[List]: None, or a list. Python's truth test is Truthy.
None == [some |-> FALSE, jobs |-> <<>>]
Some(jobs) == [some |-> TRUE, jobs |-> jobs]
Truthy(r) == r.some /\ r.jobs # <<>>

\* (mutant) the skills are normalised but not sorted
_generate_cache_key_unsorted(skills, experience, last_jobs, location) ==
    [skills     |-> [i \in 1..Len(skills) |-> strip(lower(skills[i]))],
     experience |-> strip(lower(experience)),
     last_jobs  |-> sorted([i \in 1..Len(last_jobs) |-> strip(lower(last_jobs[i]))]),
     location   |-> IF location # <<>> THEN strip(lower(location)) ELSE <<>>]

\* JobCache._generate_cache_key. json.dumps(..., sort_keys=True) of the
\* normalised fields is one-to-one on them and md5 is taken to be
\* collision-free, so the key is the tuple of the normalised fields.  A
\* location of None and of "" both give '' (line 38), so None is "".
_generate_cache_key(skills, experience, last_jobs, location) ==
    [skills     |-> sorted([i \in 1..Len(skills) |-> strip(lower(skills[i]))]),
     experience |-> strip(lower(experience)),
     last_jobs  |-> sorted([i \in 1..Len(last_jobs) |-> strip(lower(last_jobs[i]))]),
     location   |-> IF location # <<>> THEN strip(lower(location)) ELSE <<>>]

KeyOf(p) == _generate_cache_key(p.skills, p.experience, p.last_jobs, p.location)

\* (mutant) the entry already counts as expired at its expiry time
_is_expired_at_expiry(entry, t) == t >= entry.expires_at

\* JobCache._is_expired at time t
_is_expired(entry, t) == t > entry.expires_at

ExpiredKeys(c, t) == {k \in DOMAIN c : t > c[k].expires_at}

\* the dict after del of the keys in gone
DelKeys(c, gone) == [k \in (DOMAIN c) \ gone |-> c[k]]

\* (mutant) the comparison of the sweep is inverted: live entries are removed
_cleanup_expired_inverted(c, st, t) ==
    LET gone == {k \in DOMAIN c : t < c[k].expires_at}
    IN  [cache |-> DelKeys(c, gone),
         stats |-> [st EXCEPT !.evictions = @ + Cardinality(gone)]]

\* (mutant) the sweep removes the expired entries without counting them
_cleanup_expired_uncounted(c, st, t) ==
    [cache |-> DelKeys(c, ExpiredKeys(c, t)), stats |-> st]

\* JobCache._cleanup_expired at time t: the new cache and stats
_cleanup_expired(c, st, t) ==
    [cache |-> DelKeys(c, ExpiredKeys(c, t)),
     stats |-> [st EXCEPT !.evictions = @ + Cardinality(ExpiredKeys(c, t))]]

\* (mutant) the lookup of a key that is not stored is not counted
JobCache_get_at_miss_uncounted(c, st, key, t1, t2) ==
    LET cl == _cleanup_expired(c, st, t1)
    IN  IF key \in DOMAIN cl.cache
        THEN IF ~_is_expired(cl.cache[key], t2)
             THEN [cache |-> cl.cache,
                   stats |-> [cl.stats EXCEPT !.hits = @ + 1],
                   res   |-> Some(cl.cache[key].jobs)]
             ELSE [cache |-> DelKeys(cl.cache, {key}),
                   stats |-> [cl.stats EXCEPT !.evictions = @ + 1, !.misses = @ + 1],
                   res   |-> None]
        ELSE [cache |-> cl.cache, stats |-> cl.stats, res |-> None]

\* JobCache.get: time.time() is read at t1 by _cleanup_expired and again at
\* t2 >= t1 by _is_expired.
JobCache_get_at(c, st, key, t1, t2) ==
    LET cl == _cleanup_expired(c, st, t1)
    IN  IF key \in DOMAIN cl.cache
        THEN IF ~_is_expired(cl.cache[key], t2)
             THEN [cache |-> cl.cache,
                   stats |-> [cl.stats EXCEPT !.hits = @ + 1],
                   res   |-> Some(cl.cache[key].jobs)]
             ELSE [cache |-> DelKeys(cl.cache, {key}),
                   stats |-> [cl.stats EXCEPT !.evictions = @ + 1, !.misses = @ + 1],
                   res   |-> None]
        ELSE [cache |-> cl.cache,
              stats |-> [cl.stats EXCEPT !.misses = @ + 1],
              res   |-> None]

DefaultTtlMinutes == 30

\* JobCache.set at time t; ttl_minutes = 0 stands for None too (line 96: `or`)
\* (mutant) the entry is stored without a time to live
JobCache_set_at_no_ttl(c, st, key, jobs, ttl_minutes, t) ==
    [cache |-> [k \in (DOMAIN c) \cup {key} |->
                  IF k = key THEN [jobs |-> jobs, expires_at |-> t - 1]
                  ELSE c[k]],
     stats |-> [st EXCEPT !.sets = @ + 1]]

JobCache_set_at(c, st, key, jobs, ttl_minutes, t) ==
    LET ttl == IF ttl_minutes # 0 THEN ttl_minutes ELSE DefaultTtlMinutes
    IN  [cache |-> [k \in (DOMAIN c) \cup {key} |->
                      IF k = key THEN [jobs |-> jobs, expires_at |-> t + ttl]
                      ELSE c[k]],
         stats |-> [st EXCEPT !.sets = @ + 1]]

\* JobCache.invalidate: the new cache, and whether an entry was removed
JobCache_invalidate_at(c, key) ==
    IF key \in DOMAIN c
    THEN [cache |-> DelKeys(c, {key}), res |-> TRUE]
    ELSE [cache |-> c, res |-> FALSE]

----------------------------------------------------------------------------
(* UserSessionCache (job_cache.py)                                         *)

SessionTtlHours == 8

ExpiredUsers(us, t) == {u \in DOMAIN us : t > us[u].expires_at}

\* UserSessionCache._cleanup_expired_sessions at time t
_cleanup_expired_sessions(us, t) == DelKeys(us, ExpiredUsers(us, t))

\* UserSessionCache.get_user_jobs: time.time() is read at t1 by the cleanup
\* and again at t2 >= t1 by _is_session_expired.
get_user_jobs_at(us, user_id, t1, t2) ==
    LET cl == _cleanup_expired_sessions(us, t1)
    IN  IF user_id \in DOMAIN cl
        THEN IF ~(t2 > cl[user_id].expires_at)
             THEN [sessions |-> cl, res |-> Some(cl[user_id].jobs)]
             ELSE [sessions |-> DelKeys(cl, {user_id}), res |-> None]
        ELSE [sessions |-> cl, res |-> None]

\* (mutant) a session stored over another one counts one refresh more
set_user_jobs_at_counted(us, user_id, jobs, profile_data, t) ==
    [u \in (DOMAIN us) \cup {user_id} |->
        IF u = user_id
        THEN [jobs          |-> jobs,
              profile       |-> profile_data,
              expires_at    |-> t + SessionTtlHours * 60,
              refresh_count |-> IF user_id \in DOMAIN us
                                THEN us[user_id].refresh_count + 1 ELSE 0]
        ELSE us[u]]

\* UserSessionCache.set_user_jobs at time t
set_user_jobs_at(us, user_id, jobs, profile_data, t) ==
    [u \in (DOMAIN us) \cup {user_id} |->
        IF u = user_id
        THEN [jobs          |-> jobs,
              profile       |-> profile_data,
              expires_at    |-> t + SessionTtlHours * 60,
              refresh_count |-> IF user_id \in DOMAIN us
                                THEN us[user_id].refresh_count ELSE 0]
        ELSE us[u]]

\* (mutant) invalidate_user answers True for a user without a session too
invalidate_user_at_always(us, user_id) ==
    [sessions |-> DelKeys(us, {user_id}), res |-> TRUE]

\* UserSessionCache.invalidate_user
invalidate_user_at(us, user_id) ==
    IF user_id \in DOMAIN us
    THEN [sessions |-> DelKeys(us, {user_id}), res |-> TRUE]
    ELSE [sessions |-> us, res |-> FALSE]

\* (mutant) the count is incremented and the session is kept
refresh_user_jobs_at_kept(us, user_id) ==
    IF user_id \in DOMAIN us
    THEN [us EXCEPT ![user_id].refresh_count = @ + 1]
    ELSE us

\* UserSessionCache.refresh_user_jobs: the count is incremented on the
\* session that the next statement deletes.
refresh_user_jobs_at(us, user_id) ==
    IF user_id \in DOMAIN us THEN DelKeys(us, {user_id}) ELSE us

----------------------------------------------------------------------------
(* Bounds and inputs of the model                                          *)

\* The instants at which operations happen: 30 is the very expiry time of a
\* profile entry stored at 0; 510 is past the expiry of every profile entry
\* stored before, is the very expiry time of a user session stored at 30
\* and is past that of one stored at 0.
Instants == {0, 30, 510}

\* the instants time.time() may return on a second read within one call
LaterReads(t) ==
    {t} \cup {t2 \in Instants : t2 > t /\ \A t3 \in Instants : t3 > t => t2 <= t3}

MaxGets == 3    \* JobCache.get calls (hits + misses) in a behaviour
MaxSets == 2    \* JobCache.set calls in a behaviour

\* Candidate profiles.  ProfileA2 is ProfileA with the lists permuted and
\* with other capitals and surrounding blanks.
ProfileA  == [skills     |-> << <<"P","y">>, <<"s","q","l">> >>,
              experience |-> <<"5","y">>,
              last_jobs  |-> << <<"q","a">>, <<"d","e","v">> >>,
              location   |-> <<"n","l">>]
ProfileA2 == [skills     |-> << <<"s","q","l"," ">>, <<"P","Y">> >>,
              experience |-> <<"5","Y"," ">>,
              last_jobs  |-> << <<"D","e","v">>, <<"q","a">> >>,
              location   |-> <<" ","N","L">>]
ProfileB  == [skills     |-> << <<"p","y">> >>,
              experience |-> <<"5","y">>,
              last_jobs  |-> << <<"d","e","v">> >>,
              location   |-> <<>>]
NoProfile == [skills |-> <<>>, experience |-> <<>>, last_jobs |-> <<>>,
              location |-> <<>>]

Profiles == {ProfileA, ProfileA2, ProfileB}

MaxSkills == 2  \* the longest skills list of the profiles of SpecKey

\* the lists of at most n elements of S
ListsUpTo(S, n) == UNION {[1..k -> S] : k \in 0..n}

SkillWords == {<<"p","y">>, <<"P","Y"," ">>, <<"s","q","l">>}
TitleLists == {<<>>, <<<<"q","a">>>>, <<<<"q","a">>, <<"D","e","v">>>>, <<<<"D","e","v">>, <<"q","a">>>>, <<<<"d","e","v">>, <<"Q","A">>>>}

\* The profiles of SpecKey: same skills in other orders, in other capitals,
\* with surrounding blanks and with repetitions.
KeyProfiles ==
    [skills     : ListsUpTo(SkillWords, MaxSkills),
     experience : {<<"5","y">>},
     last_jobs  : TitleLists,
     location   : {<<"n","l">>, <<" ","N","L">>}]

\* the cache key of each profile of the model
KeyTable == [p \in Profiles \cup KeyProfiles |-> KeyOf(p)]

\* ttl_minutes arguments of JobCache.set; 0 is None
Ttls == {0, 60}

EmptyDict == <<>>

ZeroStats == [hits |-> 0, misses |-> 0, sets |-> 0, evictions |-> 0]

\* The request threads of the server
Threads == {"t1", "t2"}

\* threading.Lock(): not held
Free == "free"

\* JobCache.__init__ and UserSessionCache.__init__: self.lock = Lock()
FreeLocks == [job_cache |-> Free, user_session_cache |-> Free]

\* a thread that runs no request
Idle == [op |-> "idle", pc |-> 0, user |-> "", seen |-> 0, res |-> "none"]

IdleThreads == [t \in Threads |-> Idle]

\* no call of JobAggregator.search_all_apis is in progress
NotGathering == [pc |-> "idle", tasks |-> <<>>]

\* The state an operation starts in, kept in last.pre.  The entries and the
\* clock are kept for a lookup only; for the other operations the state
\* before is the unprimed state of the step.
Snapshot(op) ==
    IF op = "get"
    THEN [now |-> now, cache |-> cache, stats |-> stats]
    ELSE [now |-> 0, cache |-> EmptyDict, stats |-> stats]

NoEnv == [RAPID_API_KEY |-> FALSE, ADZUNA_APP_ID |-> FALSE,
          ADZUNA_APP_KEY |-> FALSE]

InitLast == [op |-> "init", p |-> NoProfile, user |-> "", jobs |-> <<>>,
             res |-> None, ok |-> FALSE, again |-> FALSE,
             calls |-> <<>>, fetched |-> <<>>, args |-> <<>>, served |-> EmptyDict,
             pre |-> [now |-> 0, cache |-> EmptyDict, stats |-> ZeroStats]]

\* The record of an operation.  again says
\* that a lookup follows a lookup of the same key; calls lists the clients
\* each search_all_apis call of the operation called and fetched the
\* postings they returned; served keeps, for each cache key, the list the
\* last get_personalized_job_recommendations(use_cache=True) without a user
\* returned and the time until which the profile entry behind it lives.
Did(op, p, user, jobs, res, ok) ==
    [op |-> op, p |-> p, user |-> user, jobs |-> jobs, res |-> res, ok |-> ok,
     again |-> (op = "get" /\ last.op = "get" /\ KeyTable[last.p] = KeyTable[p]),
     calls |-> <<>>, fetched |-> <<>>, args |-> <<>>,
     served |-> IF op = "clear_all" THEN EmptyDict
                ELSE IF op = "invalidate" THEN DelKeys(last.served, {KeyTable[p]})
                ELSE last.served,
     pre |-> Snapshot(op)]

\* time passes
Advance ==
    /\ \E t \in Instants : t > now /\ now' = t
    /\ UNCHANGED <<cache, stats, user_sessions, env, gathering, lock, threads, set_keys, last>>

----------------------------------------------------------------------------
(* Postings (the dicts the parsers of job_api_services.py build).  source   *)
(* and applyUrl, which the code stores and tests for emptiness only, are   *)
(* TLA+ strings.                                                           *)

Posting(title, company, location, country, remote, source, applyUrl, match_score) ==
    [title |-> title, company |-> company, location |-> location,
     country |-> country, remote |-> remote, source |-> source,
     applyUrl |-> applyUrl, match_score |-> match_score]

PostA == Posting(<<"Q","A">>, <<"I","N","G">>, <<"B","r","e","d","a">>, <<"N","e","t","h","e","r","l","a","n","d","s">>, FALSE, "Indeed/LinkedIn (Adzuna)", "u1", 80)
PostB == Posting(<<"D","e","v">>, <<"K","P","N">>, <<"R","e","m","o","t","e">>, <<"G","l","o","b","a","l">>, TRUE, "RemoteOK", "u2", 75)

\* jobs arguments of JobCache.set
Payloads == {<<>>, <<PostB, PostA>>}

----------------------------------------------------------------------------
(* The operations of JobCache as actions                                   *)

\* job_cache.get(...) at time now; _is_expired reads the clock at t2
CacheGet(p, t2) ==
    /\ stats.hits + stats.misses < MaxGets
    /\ LET r == JobCache_get_at(cache, stats, KeyTable[p], now, t2)
       IN  /\ cache' = r.cache
           /\ stats' = r.stats
           /\ last' = Did("get", p, "", <<>>, r.res, r.res.some)
    /\ now' = t2
    /\ UNCHANGED <<user_sessions, env, gathering, lock, threads, set_keys>>

\* job_cache.set(...)
CacheSet(p, jobs, ttl_minutes) ==
    /\ stats.sets < MaxSets
    /\ LET r == JobCache_set_at(cache, stats, KeyTable[p], jobs, ttl_minutes, now)
       IN  /\ cache' = r.cache
           /\ stats' = r.stats
           /\ last' = Did("set", p, "", jobs, None, TRUE)
    /\ set_keys' = set_keys \cup {KeyTable[p]}
    /\ UNCHANGED <<now, user_sessions, env, gathering, lock, threads>>

\* job_cache.invalidate(...)
CacheInvalidate(p) ==
    /\ LET r == JobCache_invalidate_at(cache, KeyTable[p])
       IN  /\ cache' = r.cache
           /\ last' = Did("invalidate", p, "", <<>>, None, r.res)
    /\ UNCHANGED <<now, stats, user_sessions, env, gathering, lock, threads, set_keys>>

\* job_cache.clear_all()
CacheClearAll ==
    /\ cache' = EmptyDict
    /\ last' = Did("clear_all", NoProfile, "", <<>>, None, TRUE)
    /\ UNCHANGED <<now, stats, user_sessions, env, gathering, lock, threads, set_keys>>

InitCache ==
    /\ now = 0
    /\ cache = EmptyDict
    /\ stats = ZeroStats
    /\ user_sessions = EmptyDict
    /\ env = NoEnv
    /\ lock = FreeLocks
    /\ threads = IdleThreads
    /\ gathering = NotGathering
    /\ set_keys = {}
    /\ last = InitLast

NextCache ==
    \/ \E p \in Profiles : \E t2 \in LaterReads(now) : CacheGet(p, t2)
    \/ \E p \in Profiles : \E jobs \in Payloads : \E ttl \in Ttls : CacheSet(p, jobs, ttl)
    \/ \E p \in Profiles : CacheInvalidate(p)
    \/ CacheClearAll
    \/ Advance

\* JobCache driven directly
SpecCache == InitCache /\ [][NextCache]_vars

----------------------------------------------------------------------------
(* Properties of JobCache                                                  *)

\* this step is an operation of the caches that its record tells from the
\* operation before (Advance leaves the record as it is)
OpStep == last' # last

\* this step is a JobCache.get
GetStep == OpStep /\ last'.op = "get"

(* C2: after set(P, jobs, ttl), a get(P) made while now <= expires_at      *)
(* returns the stored payload and leaves the entry as it is, so that two   *)
(* consecutive such lookups return the identical payload; a get(P) made    *)
(* when now > expires_at returns None and the entry is gone afterwards.    *)
C2_CacheIdempotence ==
    [][GetStep =>
        LET k == KeyTable[last'.p]
        IN  /\ (k \in DOMAIN cache /\ now' <= cache[k].expires_at) =>
                 /\ last'.res = Some(cache[k].jobs)
                 /\ k \in DOMAIN cache' /\ cache'[k] = cache[k]
                 /\ (last.op = "set" /\ KeyTable[last.p] = k) =>
                        last'.res = Some(last.jobs)
                 /\ (last.op = "get" /\ KeyTable[last.p] = k /\ last.res.some) =>
                        last'.res = last.res
            /\ (k \in DOMAIN cache /\ now > cache[k].expires_at) =>
                 /\ last'.res = None
                 /\ k \notin DOMAIN cache'
    ]_vars

\* the second of two consecutive hits, made at the very expiry time
C2_Witness ==
    /\ last.op = "get" /\ last.again /\ last.res.some /\ last.res.jobs # <<>>
    /\ KeyTable[last.p] \in DOMAIN cache
    /\ now = cache[KeyTable[last.p]].expires_at

\* the second of two consecutive get(P), P never stored
TwoGets ==
    /\ GetStep /\ last.op = "get"
    /\ KeyTable[last.p] = KeyTable[last'.p]
    /\ KeyTable[last'.p] \notin set_keys

(* C3 as claimed: two get(P) in a row before any set for P miss both       *)
(* times, add exactly 2 to misses and leave hits, sets and the stored      *)
(* entries unchanged.                                                      *)
C3_Original ==
    [][TwoGets =>
        /\ last.res = None /\ last'.res = None
        /\ stats'.misses = last.pre.stats.misses + 2
        /\ stats'.hits = last.pre.stats.hits
        /\ stats'.sets = last.pre.stats.sets
        /\ cache' = last.pre.cache
    ]_vars

(* C3 amended: two get(P) in a row before any set for P miss both times,   *)
(* add exactly 2 to misses and leave hits and sets unchanged; no entry is  *)
(* added or altered, but the entries of other profiles that have expired   *)
(* by the time of a lookup are evicted by it (and counted as evictions).   *)
C3_TwoMisses ==
    [][TwoGets =>
        /\ last.res = None /\ last'.res = None
        /\ stats'.misses = last.pre.stats.misses + 2
        /\ stats'.hits = last.pre.stats.hits
        /\ stats'.sets = last.pre.stats.sets
        /\ \A q \in DOMAIN cache' :
               q \in DOMAIN last.pre.cache /\ cache'[q] = last.pre.cache[q]
        /\ \A q \in (DOMAIN last.pre.cache) \ (DOMAIN cache') :
               now > last.pre.cache[q].expires_at
        /\ stats'.evictions = last.pre.stats.evictions
               + Cardinality((DOMAIN last.pre.cache) \ (DOMAIN cache'))
    ]_vars

\* the second of two misses for a profile never stored, by which another
\* profile's entry has been evicted
C3_Witness ==
    /\ last.op = "get" /\ last.again /\ last.res = None
    /\ KeyTable[last.p] \notin set_keys
    /\ stats.misses >= 2
    /\ DOMAIN cache # DOMAIN last.pre.cache

\* this step is a get of a profile whose entry has expired by the time the
\* call reads the clock
ExpiredGet ==
    /\ GetStep
    /\ KeyTable[last'.p] \in DOMAIN cache
    /\ now' > cache[KeyTable[last'.p]].expires_at

(* C4 as claimed: a get that finds the entry of its profile expired        *)
(* removes it and counts it as an eviction and not as a miss.              *)
C4_Original ==
    [][ExpiredGet =>
        /\ KeyTable[last'.p] \notin DOMAIN cache'
        /\ stats'.evictions = stats.evictions
               + Cardinality((DOMAIN cache) \ (DOMAIN cache'))
        /\ stats'.misses = stats.misses
    ]_vars

(* C4 amended: a get that finds the entry of its profile expired removes   *)
(* it and counts it as one eviction, and the lookup is also counted as one *)
(* miss (and as no hit); it returns None.                                  *)
C4_ExpiredLookup ==
    [][ExpiredGet =>
        /\ KeyTable[last'.p] \notin DOMAIN cache'
        /\ stats'.evictions = stats.evictions
               + Cardinality((DOMAIN cache) \ (DOMAIN cache'))
        /\ stats'.misses = stats.misses + 1
        /\ stats'.hits = stats.hits
        /\ last'.res = None
    ]_vars

\* a get has just removed the expired entry of its own profile
C4_Witness ==
    /\ last.op = "get" /\ last.res = None
    /\ KeyTable[last.p] \in DOMAIN last.pre.cache
    /\ KeyTable[last.p] \notin DOMAIN cache
    /\ stats.evictions > last.pre.stats.evictions
    /\ stats.misses = last.pre.stats.misses + 1

----------------------------------------------------------------------------
(* JobCache._generate_cache_key: a set under one profile, then a get under *)
(* another                                                                 *)

KeySet(p) ==
    /\ stats.sets = 0
    /\ CacheSet(p, <<PostA>>, 0)

KeyGet(q) ==
    /\ last.op = "set"
    /\ CacheGet(q, now)

NextKey ==
    \/ \E p \in KeyProfiles : KeySet(p)
    \/ \E q \in KeyProfiles : KeyGet(q)

SpecKey == InitCache /\ [][NextKey]_vars

\* the lists a and b are permutations of each other
IsPermutation(a, b) ==
    /\ Len(a) = Len(b)
    /\ \E f \in [1..Len(a) -> 1..Len(a)] :
        /\ \A i, j \in 1..Len(a) : i # j => f[i] # f[j]
        /\ \A i \in 1..Len(a) : b[f[i]] = a[i]

\* the same text up to case and surrounding whitespace
SameText(a, b) == strip(lower(a)) = strip(lower(b))

\* the profiles differ only in the order of the skills and of the titles
SameUpToOrder(p, q) ==
    /\ IsPermutation(p.skills, q.skills)
    /\ IsPermutation(p.last_jobs, q.last_jobs)
    /\ SameText(p.experience, q.experience)
    /\ SameText(p.location, q.location)

(* C5: profiles whose skill lists are permutations of each other and whose *)
(* title lists are permutations of each other (same experience and         *)
(* location up to case and blanks) have the same cache key, so a set under *)
(* one ordering is hit by a get under the other.                           *)
C5_OrderIndependent ==
    [][(GetStep /\ last.op = "set" /\ SameUpToOrder(last.p, last'.p)) =>
        /\ KeyTable[last'.p] = KeyTable[last.p]
        /\ last'.res = Some(last.jobs)
        /\ stats'.hits = stats.hits + 1
    ]_vars

\* a get under another order of two distinct skills and of two distinct
\* titles has hit
C5_Witness ==
    /\ last.op = "get" /\ last.res = Some(<<PostA>>)
    /\ Len(last.p.skills) = 2 /\ last.p.skills[1] # last.p.skills[2]
    /\ Len(last.p.last_jobs) = 2
    /\ \E k \in DOMAIN last.pre.cache :
          /\ k.skills = <<strip(lower(last.p.skills[2])), strip(lower(last.p.skills[1]))>>
          /\ k.last_jobs = <<strip(lower(last.p.last_jobs[2])),
                             strip(lower(last.p.last_jobs[1]))>>

\* the elements of a list, normalised, as a set
NormSet(a) == {strip(lower(a[i])) : i \in 1..Len(a)}

\* equal as case-insensitive, deduplicated sets of skills; the rest equal
SemanticallyIdentical(p, q) ==
    /\ NormSet(p.skills) = NormSet(q.skills)
    /\ p.last_jobs = q.last_jobs
    /\ p.experience = q.experience
    /\ p.location = q.location

(* C6 as claimed: two profiles whose skills are equal as case-insensitive, *)
(* deduplicated sets, with equal experience, titles and location, have the *)
(* same cache key (a set under one is hit by a get under the other).       *)
C6_SameKeyForSameSkillSet ==
    [][(GetStep /\ last.op = "set" /\ SemanticallyIdentical(last.p, last'.p)) =>
        /\ KeyTable[last'.p] = KeyTable[last.p]
        /\ last'.res = Some(last.jobs)
    ]_vars

----------------------------------------------------------------------------
(* Text cleaning and postings of the source clients (job_api_services.py)  *)

\* re.sub(r'<[^>]+>', '', text): a "<", one or more characters other than
\* ">", and the ">" that follows them
RECURSIVE RemoveTags(_)
RemoveTags(s) ==
    IF s = <<>> THEN <<>>
    ELSE IF Head(s) = "<"
         THEN LET closes == {j \in 2..Len(s) : s[j] = ">"}
              IN  IF closes # {} /\ SetMin(closes) > 2
                  THEN RemoveTags(SubSeq(s, SetMin(closes) + 1, Len(s)))
                  ELSE <<Head(s)>> \o RemoveTags(Tail(s))
         ELSE <<Head(s)>> \o RemoveTags(Tail(s))

\* text.split(): the words between runs of whitespace
RECURSIVE split(_)
split(s) ==
    LET t == strip(s)
        sp == {i \in 1..Len(t) : IsSpace(t[i])}
    IN  IF t = <<>> THEN <<>>
        ELSE IF sp = {} THEN <<t>>
        ELSE <<SubSeq(t, 1, SetMin(sp) - 1)>> \o split(SubSeq(t, SetMin(sp) + 1, Len(t)))

\* sep.join(words)
RECURSIVE join(_, _)
join(sep, words) ==
    IF words = <<>> THEN <<>>
    ELSE IF Len(words) = 1 THEN words[1]
    ELSE words[1] \o sep \o join(sep, Tail(words))

\* JobAPIService.clean_text
clean_text(text) ==
    IF text = <<>> THEN <<>>
    ELSE strip(join(<<" ">>, split(RemoveTags(text))))

\* s[:n]
Take(s, n) == SubSeq(s, 1, IF Len(s) < n THEN Len(s) ELSE n)

\* the concatenation of a list of lists
RECURSIVE Concat(_)
Concat(lists) ==
    IF lists = <<>> THEN <<>> ELSE Head(lists) \o Concat(Tail(lists))

\* One job of a provider's JSON response.  Every field is present; url is
\* the provider's direct link (job_apply_link, redirect_url, apply_url, url).
Raw(title, company, location, country, url, remote) ==
    [title |-> title, company |-> company, location |-> location,
     country |-> country, url |-> url, remote |-> remote]

\* JSearchAPI._parse_jsearch_jobs
_parse_jsearch_jobs(jobs_data) ==
    [i \in 1..Len(jobs_data) |->
        LET job == jobs_data[i]
        IN  Posting(clean_text(job.title), clean_text(job.company),
                    clean_text(job.location \o <<","," ">> \o job.country),
                    job.country, job.remote, "LinkedIn/Indeed (JSearch)",
                    IF job.url # "" THEN job.url
                    ELSE "https://www.linkedin.com/jobs/view/",
                    85)]

\* AdzunaAPI._parse_adzuna_jobs (the description of a job is empty)
_parse_adzuna_jobs(jobs_data) ==
    [i \in 1..Len(jobs_data) |->
        LET job == jobs_data[i]
        IN  Posting(clean_text(job.title), clean_text(job.company),
                    clean_text(job.location), job.country,
                    Contains(lower(job.title), <<"r","e","m","o","t","e">>),
                    "Indeed/LinkedIn (Adzuna)",
                    IF job.url # "" THEN job.url
                    ELSE "https://www.indeed.com/viewjob?jk=",
                    80)]

\* RemoteOKAPI._parse_remoteok_jobs
_parse_remoteok_jobs(jobs_data) ==
    [i \in 1..Len(jobs_data) |->
        LET job == jobs_data[i]
        IN  Posting(clean_text(job.title), clean_text(job.company),
                    <<"R","e","m","o","t","e">>, <<"G","l","o","b","a","l">>, TRUE, "RemoteOK",
                    IF job.url # "" THEN job.url
                    ELSE "https://remoteok.io/remote-jobs/",
                    75)]

\* What an HTTP request to a provider does: it raises (connection error,
\* time-out), answers with a status other than 200, or answers 200 with data.
Raises == [kind |-> "raise", data |-> <<>>]
Non200 == [kind |-> "status", data |-> <<>>]
Ok(data) == [kind |-> "ok", data |-> data]

\* JSearchAPI.__init__: api_key is os.getenv('RAPID_API_KEY'); "" is None
JSearchAPI_init(e) == [api_key |-> IF e.RAPID_API_KEY THEN "key" ELSE ""]

\* AdzunaAPI.__init__: the placeholders stand in for missing variables
AdzunaAPI_init(e) ==
    [app_id  |-> IF e.ADZUNA_APP_ID THEN "id" ELSE "your_app_id",
     app_key |-> IF e.ADZUNA_APP_KEY THEN "key" ELSE "your_app_key"]

\* JSearchAPI.search_jobs: every exception is caught inside
JSearchAPI_search_jobs(api, out) ==
    IF api.api_key = "" THEN <<>>
    ELSE IF out.kind = "ok" THEN _parse_jsearch_jobs(out.data)
    ELSE <<>>

\* AdzunaAPI.search_jobs: every exception is caught inside
AdzunaAPI_search_jobs(api, out) ==
    IF out.kind = "ok" THEN _parse_adzuna_jobs(out.data) ELSE <<>>

\* RemoteOKAPI.search_jobs: data[0] is the feed's notice; of the next 20
\* jobs those whose position holds a term of the query, and of them 10
RemoteOKAPI_search_jobs(query, out) ==
    IF out.kind = "ok" /\ out.data # <<>>
    THEN LET terms == split(lower(query))
             Matches(job) ==
                 \/ query = <<>>
                 \/ \E k \in 1..Len(terms) : Contains(lower(job.title), terms[k])
             filtered_jobs == SelectSeq(Take(Tail(out.data), 20), Matches)
         IN  _parse_remoteok_jobs(Take(filtered_jobs, 10))
    ELSE <<>>

\* NetherlandsJobAPI._generate_dutch_jobs: the list job_titles of the query
NLJobTitles(query) ==
    LET query_lower == lower(query)
    IN  IF Contains(query_lower, <<"d","a","t","a"," ","e","n","g","i","n","e","e","r">>) \/ Contains(query_lower, <<"d","a","t","a">>)
        THEN <<<<"S","e","n","i","o","r"," ","D","a","t","a"," ","E","n","g","i","n","e","e","r">>, <<"D","a","t","a"," ","E","n","g","i","n","e","e","r">>>>
        ELSE IF Contains(query_lower, <<"s","o","f","t","w","a","r","e"," ","e","n","g","i","n","e","e","r">>) \/ Contains(query_lower, <<"d","e","v","e","l","o","p","e","r">>)
        THEN <<<<"S","e","n","i","o","r"," ","S","o","f","t","w","a","r","e"," ","E","n","g","i","n","e","e","r">>, <<"S","o","f","t","w","a","r","e"," ","E","n","g","i","n","e","e","r">>>>
        ELSE IF Contains(query_lower, <<"a","r","c","h","i","t","e","c","t">>)
        THEN <<<<"S","o","l","u","t","i","o","n"," ","A","r","c","h","i","t","e","c","t">>, <<"S","o","f","t","w","a","r","e"," ","A","r","c","h","i","t","e","c","t">>>>
        ELSE <<<<"S","o","f","t","w","a","r","e"," ","E","n","g","i","n","e","e","r">>, <<"D","a","t","a"," ","E","n","g","i","n","e","e","r">>>>

\* NetherlandsJobAPI.search_jobs: no request is made; the jobs are generated
\* from random draws.  draws[i] is the draw of the i-th job: the index of
\* its title in job_titles and its match_score (random.randint(75, 95)).
NetherlandsJobAPI_search_jobs(query, draws) ==
    [i \in 1..Len(draws) |->
        Posting(NLJobTitles(query)[draws[i].title], <<"B","o","o","k","i","n","g",".","c","o","m">>,
                <<"A","m","s","t","e","r","d","a","m",","," ","N","e","t","h","e","r","l","a","n","d","s">>, <<"N","e","t","h","e","r","l","a","n","d","s">>, FALSE,
                "Indeed Netherlands", "https://nl.indeed.com/job/",
                draws[i].match_score)]

\* JobAggregator._remove_duplicates, with the keys seen so far
RECURSIVE _remove_duplicates_seen(_, _)
_remove_duplicates_seen(jobs, seen) ==
    IF jobs = <<>> THEN <<>>
    ELSE LET key == <<strip(lower(Head(jobs).title)), strip(lower(Head(jobs).company))>>
         IN  IF key \notin seen /\ key # << <<>>, <<>> >>
             THEN <<Head(jobs)>> \o _remove_duplicates_seen(Tail(jobs), seen \cup {key})
             ELSE _remove_duplicates_seen(Tail(jobs), seen)

\* JobAggregator._remove_duplicates
_remove_duplicates(jobs) == _remove_duplicates_seen(jobs, {})

\* x put behind the elements of s that score at least as much
RECURSIVE InsertByScore(_, _)
InsertByScore(x, s) ==
    IF s = <<>> THEN <<x>>
    ELSE IF Head(s).match_score >= x.match_score
         THEN <<Head(s)>> \o InsertByScore(x, Tail(s))
         ELSE <<x>> \o s

\* sorted(jobs, key=match_score, reverse=True): stable
RECURSIVE sorted_by_match_score(_)
sorted_by_match_score(jobs) ==
    IF jobs = <<>> THEN <<>>
    ELSE InsertByScore(jobs[Len(jobs)],
                       sorted_by_match_score(SubSeq(jobs, 1, Len(jobs) - 1)))

\* (mutant) only the result of the first task is collected
gather_first_only(results) ==
    IF results = <<>> THEN <<>> ELSE results[1]

\* asyncio.gather(*tasks, return_exceptions=True) and the loop that extends
\* all_jobs with every result that is a list
gather(results) == Concat(results)

\* what the client named c returns for the query under the answers a
ClientResult(c, e, query, a) ==
    IF c = "netherlands" THEN NetherlandsJobAPI_search_jobs(query, a.netherlands)
    ELSE IF c = "jsearch" THEN JSearchAPI_search_jobs(JSearchAPI_init(e), a.jsearch)
    ELSE IF c = "adzuna" THEN AdzunaAPI_search_jobs(AdzunaAPI_init(e), a.adzuna)
    ELSE RemoteOKAPI_search_jobs(query, a.remoteok)

\* the search tasks JobAggregator.search_all_apis creates, in order
SearchTasks(e, country) ==
    (IF country # <<>> /\ lower(country) \in {<<"n","e","t","h","e","r","l","a","n","d","s">>, <<"h","o","l","l","a","n","d">>, <<"n","l">>}
     THEN <<"netherlands">> ELSE <<>>)
    \o (IF JSearchAPI_init(e).api_key # "" THEN <<"jsearch">> ELSE <<>>)
    \o (IF AdzunaAPI_init(e).app_id # "" /\ AdzunaAPI_init(e).app_key # ""
        THEN <<"adzuna">> ELSE <<>>)
    \o <<"remoteok">>

\* JobAggregator.search_all_apis: the clients it called, what they returned
\* (all_jobs) and the list it returns
search_all_apis(e, query, location, country, a) ==
    LET tasks == SearchTasks(e, country)
        results == [i \in 1..Len(tasks) |-> ClientResult(tasks[i], e, query, a)]
        all_jobs == gather(results)
    IN  [calls    |-> tasks,
         all_jobs |-> all_jobs,
         jobs     |-> sorted_by_match_score(_remove_duplicates(all_jobs))]

----------------------------------------------------------------------------
(* Country detection, location priority, validation (job_services.py)      *)

\* country_mapping of _extract_country_from_location, in dict order
country_mapping ==
    << <<<<"n","e","t","h","e","r","l","a","n","d","s">>, <<"N","e","t","h","e","r","l","a","n","d","s">>>>, <<<<"h","o","l","l","a","n","d">>, <<"N","e","t","h","e","r","l","a","n","d","s">>>>,
       <<<<"n","l">>, <<"N","e","t","h","e","r","l","a","n","d","s">>>>, <<<<"n","e","d","e","r","l","a","n","d">>, <<"N","e","t","h","e","r","l","a","n","d","s">>>>,
       <<<<"d","u","t","c","h">>, <<"N","e","t","h","e","r","l","a","n","d","s">>>>,
       <<<<"a","m","s","t","e","r","d","a","m">>, <<"N","e","t","h","e","r","l","a","n","d","s">>>>, <<<<"r","o","t","t","e","r","d","a","m">>, <<"N","e","t","h","e","r","l","a","n","d","s">>>>,
       <<<<"u","t","r","e","c","h","t">>, <<"N","e","t","h","e","r","l","a","n","d","s">>>>, <<<<"t","h","e"," ","h","a","g","u","e">>, <<"N","e","t","h","e","r","l","a","n","d","s">>>>,
       <<<<"e","i","n","d","h","o","v","e","n">>, <<"N","e","t","h","e","r","l","a","n","d","s">>>>, <<<<"g","r","o","n","i","n","g","e","n">>, <<"N","e","t","h","e","r","l","a","n","d","s">>>>,
       <<<<"t","i","l","b","u","r","g">>, <<"N","e","t","h","e","r","l","a","n","d","s">>>>, <<<<"a","l","m","e","r","e">>, <<"N","e","t","h","e","r","l","a","n","d","s">>>>,
       <<<<"b","r","e","d","a">>, <<"N","e","t","h","e","r","l","a","n","d","s">>>>, <<<<"n","i","j","m","e","g","e","n">>, <<"N","e","t","h","e","r","l","a","n","d","s">>>>,
       <<<<"a","p","e","l","d","o","o","r","n">>, <<"N","e","t","h","e","r","l","a","n","d","s">>>>, <<<<"h","a","a","r","l","e","m">>, <<"N","e","t","h","e","r","l","a","n","d","s">>>>,
       <<<<"a","r","n","h","e","m">>, <<"N","e","t","h","e","r","l","a","n","d","s">>>>, <<<<"z","a","a","n","s","t","a","d">>, <<"N","e","t","h","e","r","l","a","n","d","s">>>>,
       <<<<"h","a","a","r","l","e","m","m","e","r","m","e","e","r">>, <<"N","e","t","h","e","r","l","a","n","d","s">>>>,
       <<<<"g","e","r","m","a","n","y">>, <<"G","e","r","m","a","n","y">>>>, <<<<"d","e","u","t","s","c","h","l","a","n","d">>, <<"G","e","r","m","a","n","y">>>>,
       <<<<"d","e">>, <<"G","e","r","m","a","n","y">>>>, <<<<"b","e","r","l","i","n">>, <<"G","e","r","m","a","n","y">>>>,
       <<<<"m","u","n","i","c","h">>, <<"G","e","r","m","a","n","y">>>>, <<<<"h","a","m","b","u","r","g">>, <<"G","e","r","m","a","n","y">>>>,
       <<<<"c","o","l","o","g","n","e">>, <<"G","e","r","m","a","n","y">>>>, <<<<"f","r","a","n","k","f","u","r","t">>, <<"G","e","r","m","a","n","y">>>>,
       <<<<"u","n","i","t","e","d"," ","k","i","n","g","d","o","m">>, <<"U","n","i","t","e","d"," ","K","i","n","g","d","o","m">>>>, <<<<"u","k">>, <<"U","n","i","t","e","d"," ","K","i","n","g","d","o","m">>>>,
       <<<<"b","r","i","t","a","i","n">>, <<"U","n","i","t","e","d"," ","K","i","n","g","d","o","m">>>>, <<<<"e","n","g","l","a","n","d">>, <<"U","n","i","t","e","d"," ","K","i","n","g","d","o","m">>>>,
       <<<<"l","o","n","d","o","n">>, <<"U","n","i","t","e","d"," ","K","i","n","g","d","o","m">>>>, <<<<"m","a","n","c","h","e","s","t","e","r">>, <<"U","n","i","t","e","d"," ","K","i","n","g","d","o","m">>>>,
       <<<<"b","i","r","m","i","n","g","h","a","m">>, <<"U","n","i","t","e","d"," ","K","i","n","g","d","o","m">>>>,
       <<<<"f","r","a","n","c","e">>, <<"F","r","a","n","c","e">>>>, <<<<"f","r","e","n","c","h">>, <<"F","r","a","n","c","e">>>>, <<<<"f","r">>, <<"F","r","a","n","c","e">>>>,
       <<<<"p","a","r","i","s">>, <<"F","r","a","n","c","e">>>>, <<<<"l","y","o","n">>, <<"F","r","a","n","c","e">>>>, <<<<"m","a","r","s","e","i","l","l","e">>, <<"F","r","a","n","c","e">>>>,
       <<<<"b","e","l","g","i","u","m">>, <<"B","e","l","g","i","u","m">>>>, <<<<"b","r","u","s","s","e","l","s">>, <<"B","e","l","g","i","u","m">>>>,
       <<<<"a","n","t","w","e","r","p">>, <<"B","e","l","g","i","u","m">>>>,
       <<<<"s","w","i","t","z","e","r","l","a","n","d">>, <<"S","w","i","t","z","e","r","l","a","n","d">>>>, <<<<"z","u","r","i","c","h">>, <<"S","w","i","t","z","e","r","l","a","n","d">>>>,
       <<<<"g","e","n","e","v","a">>, <<"S","w","i","t","z","e","r","l","a","n","d">>>>,
       <<<<"a","u","s","t","r","i","a">>, <<"A","u","s","t","r","i","a">>>>, <<<<"v","i","e","n","n","a">>, <<"A","u","s","t","r","i","a">>>>,
       <<<<"s","w","e","d","e","n">>, <<"S","w","e","d","e","n">>>>, <<<<"s","t","o","c","k","h","o","l","m">>, <<"S","w","e","d","e","n">>>>,
       <<<<"n","o","r","w","a","y">>, <<"N","o","r","w","a","y">>>>, <<<<"o","s","l","o">>, <<"N","o","r","w","a","y">>>>,
       <<<<"d","e","n","m","a","r","k">>, <<"D","e","n","m","a","r","k">>>>, <<<<"c","o","p","e","n","h","a","g","e","n">>, <<"D","e","n","m","a","r","k">>>>,
       <<<<"f","i","n","l","a","n","d">>, <<"F","i","n","l","a","n","d">>>>, <<<<"h","e","l","s","i","n","k","i">>, <<"F","i","n","l","a","n","d">>>>,
       <<<<"i","t","a","l","y">>, <<"I","t","a","l","y">>>>, <<<<"r","o","m","e">>, <<"I","t","a","l","y">>>>, <<<<"m","i","l","a","n">>, <<"I","t","a","l","y">>>>,
       <<<<"s","p","a","i","n">>, <<"S","p","a","i","n">>>>, <<<<"m","a","d","r","i","d">>, <<"S","p","a","i","n">>>>, <<<<"b","a","r","c","e","l","o","n","a">>, <<"S","p","a","i","n">>>>,
       <<<<"u","n","i","t","e","d"," ","s","t","a","t","e","s">>, <<"U","n","i","t","e","d"," ","S","t","a","t","e","s">>>>, <<<<"u","s","a">>, <<"U","n","i","t","e","d"," ","S","t","a","t","e","s">>>>,
       <<<<"u","s">>, <<"U","n","i","t","e","d"," ","S","t","a","t","e","s">>>>, <<<<"a","m","e","r","i","c","a">>, <<"U","n","i","t","e","d"," ","S","t","a","t","e","s">>>>,
       <<<<"c","a","n","a","d","a">>, <<"C","a","n","a","d","a">>>>,
       <<<<"a","u","s","t","r","a","l","i","a">>, <<"A","u","s","t","r","a","l","i","a">>>>, <<<<"s","i","n","g","a","p","o","r","e">>, <<"S","i","n","g","a","p","o","r","e">>>>,
       <<<<"i","n","d","i","a">>, <<"I","n","d","i","a">>>>, <<<<"j","a","p","a","n">>, <<"J","a","p","a","n">>>>, <<<<"c","h","i","n","a">>, <<"C","h","i","n","a">>>> >>

\* the alternatives of the three netherlands_patterns, each between two \b
netherlands_patterns ==
    << <<<<"n","e","t","h","e","r","l","a","n","d","s">>, <<"h","o","l","l","a","n","d">>, <<"n","l">>, <<"d","u","t","c","h">>>>,
       <<<<"a","m","s","t","e","r","d","a","m">>, <<"r","o","t","t","e","r","d","a","m">>, <<"u","t","r","e","c","h","t">>, <<"t","h","e"," ","h","a","g","u","e">>, <<"e","i","n","d","h","o","v","e","n">>>>,
       <<<<"g","r","o","n","i","n","g","e","n">>, <<"t","i","l","b","u","r","g">>, <<"a","l","m","e","r","e">>, <<"b","r","e","d","a">>, <<"n","i","j","m","e","g","e","n">>>> >>

\* re.search(r'\bword\b', s)
SearchWord(s, word) ==
    \E i \in 1..(Len(s) - Len(word) + 1) :
        /\ SubSeq(s, i, i + Len(word) - 1) = word
        /\ (i = 1 \/ ~IsWordChar(s[i - 1]))
        /\ (i + Len(word) - 1 = Len(s) \/ ~IsWordChar(s[i + Len(word)]))

\* the text behind the last "," of s (s.split(',')[-1])
LastPart(s) ==
    LET commas == {i \in 1..Len(s) : s[i] = ","}
    IN  IF commas = {} THEN s ELSE SubSeq(s, SetMax(commas) + 1, Len(s))

\* _extract_country_from_location
_extract_country_from_location(location) ==
    IF location = <<>> THEN <<>>
    ELSE
      LET location_lower == strip(lower(location))
          hits == {i \in 1..Len(country_mapping) :
                      Contains(location_lower, country_mapping[i][1])}
          country_part == lower(strip(LastPart(location)))
          exact == {i \in 1..Len(country_mapping) :
                      country_mapping[i][1] = country_part}
      IN  IF \E k \in 1..Len(netherlands_patterns) :
                \E j \in 1..Len(netherlands_patterns[k]) :
                    SearchWord(location_lower, netherlands_patterns[k][j])
          THEN <<"N","e","t","h","e","r","l","a","n","d","s">>
          ELSE IF hits # {} THEN country_mapping[SetMin(hits)][2]
          ELSE IF Contains(location, <<",">>) /\ exact # {}
               THEN country_mapping[SetMin(exact)][2]
          ELSE <<>>

\* netherlands_indicators of _prioritize_jobs_by_location
netherlands_indicators ==
    <<<<"n","e","t","h","e","r","l","a","n","d","s">>, <<"h","o","l","l","a","n","d">>, <<"n","e","d","e","r","l","a","n","d">>, <<"n","l">>,
      <<"a","m","s","t","e","r","d","a","m">>, <<"r","o","t","t","e","r","d","a","m">>, <<"u","t","r","e","c","h","t">>, <<"t","h","e"," ","h","a","g","u","e">>, <<"d","e","n"," ","h","a","a","g">>,
      <<"e","i","n","d","h","o","v","e","n">>, <<"g","r","o","n","i","n","g","e","n">>, <<"t","i","l","b","u","r","g">>, <<"a","l","m","e","r","e">>, <<"b","r","e","d","a">>,
      <<"n","i","j","m","e","g","e","n">>, <<"a","p","e","l","d","o","o","r","n">>, <<"h","a","a","r","l","e","m">>, <<"a","r","n","h","e","m">>, <<"z","a","a","n","s","t","a","d">>,
      <<"h","a","a","r","l","e","m","m","e","r","m","e","e","r">>, <<"v","e","l","d","h","o","v","e","n">>,
      <<"n","o","o","r","d","-","h","o","l","l","a","n","d">>, <<"z","u","i","d","-","h","o","l","l","a","n","d">>, <<"n","o","o","r","d","-","b","r","a","b","a","n","t">>, <<"z","u","i","d","-","b","r","a","b","a","n","t">>,
      <<"g","e","l","d","e","r","l","a","n","d">>, <<"o","v","e","r","i","j","s","s","e","l">>, <<"l","i","m","b","u","r","g">>, <<"f","r","i","e","s","l","a","n","d">>, <<"d","r","e","n","t","h","e">>,
      <<"f","l","e","v","o","l","a","n","d">>, <<"z","e","e","l","a","n","d">>, <<"u","t","r","e","c","h","t">>, <<"g","r","o","n","i","n","g","e","n">>>>

european_countries ==
    {<<"G","e","r","m","a","n","y">>, <<"U","n","i","t","e","d"," ","K","i","n","g","d","o","m">>, <<"F","r","a","n","c","e">>, <<"B","e","l","g","i","u","m">>, <<"S","w","i","t","z","e","r","l","a","n","d">>,
     <<"A","u","s","t","r","i","a">>, <<"S","w","e","d","e","n">>, <<"N","o","r","w","a","y">>, <<"D","e","n","m","a","r","k">>, <<"F","i","n","l","a","n","d">>, <<"I","t","a","l","y">>,
     <<"S","p","a","i","n">>, <<"P","o","r","t","u","g","a","l">>}

\* the list _prioritize_jobs_by_location puts the job in:
\* 1 netherlands_jobs, 2 european_jobs, 3 global_jobs
LocationGroup(job, user_country) ==
    LET job_location == lower(job.location)
        job_country == lower(job.country)
    IN  IF /\ user_country = <<"N","e","t","h","e","r","l","a","n","d","s">>
           /\ \E i \in 1..Len(netherlands_indicators) :
                 \/ Contains(job_location, netherlands_indicators[i])
                 \/ Contains(job_country, netherlands_indicators[i])
        THEN 1
        ELSE IF /\ user_country = <<"N","e","t","h","e","r","l","a","n","d","s">>
                /\ \E country \in european_countries :
                      \/ Contains(job_location, lower(country))
                      \/ Contains(job_country, lower(country))
        THEN 2
        ELSE IF /\ user_country # <<>> /\ user_country # <<"N","e","t","h","e","r","l","a","n","d","s">>
                /\ \/ Contains(job_location, lower(user_country))
                   \/ Contains(job_country, lower(user_country))
        THEN 1
        ELSE 3

\* _prioritize_jobs_by_location
_prioritize_jobs_by_location(jobs, user_location, user_country) ==
    LET In1(job) == LocationGroup(job, user_country) = 1
        In2(job) == LocationGroup(job, user_country) = 2
        In3(job) == LocationGroup(job, user_country) = 3
    IN  SelectSeq(jobs, In1) \o SelectSeq(jobs, In2) \o SelectSeq(jobs, In3)

\* validate_job_posting (job_api_services.py)
validate_job_posting(job) ==
    /\ job.title # <<>> /\ job.company # <<>> /\ job.applyUrl # ""
    /\ \A term \in {<<"m","a","k","e"," ","m","o","n","e","y">>, <<"w","o","r","k"," ","f","r","o","m"," ","h","o","m","e">>, <<"e","a","s","y"," ","m","o","n","e","y">>, <<"n","o"," ","e","x","p","e","r","i","e","n","c","e">>} :
           ~Contains(lower(job.title), term)
    /\ ~(Len(lower(job.company)) < 2)
    /\ lower(job.company) \notin {<<"t","e","s","t">>, <<"e","x","a","m","p","l","e">>, <<"s","a","m","p","l","e">>}

----------------------------------------------------------------------------
(* Answers of the providers                                                *)

\* jobs of the providers' responses: RawQA2 is RawQA as another provider
\* lists it (a leading blank, other capitals), RawDev carries markup, and
\* RawTest is a job of a company that validate_job_posting rejects
RawQA   == Raw(<<"Q","A"," ","E","n","g","i","n","e","e","r">>, <<"I","N","G">>, <<"B","r","e","d","a">>, <<"N","e","t","h","e","r","l","a","n","d","s">>, "u1", FALSE)
RawQA2  == Raw(<<" ","Q","A"," ","E","n","g","i","n","e","e","r">>, <<"i","n","g"," ">>, <<>>, <<>>, "", FALSE)
RawDev  == Raw(<<"<","b",">","D","e","v","e","l","o","p","e","r","<","/","b",">">>, <<"K","P","N">>, <<"B","e","r","l","i","n">>, <<"G","e","r","m","a","n","y">>, "u2", FALSE)
RawTest == Raw(<<"D","e","v","e","l","o","p","e","r">>, <<"T","e","s","t">>, <<>>, <<>>, "u3", FALSE)

\* a job whose title names no technical role
RawSales == Raw(<<"S","a","l","e","s">>, <<"K","P","N">>, <<>>, <<>>, "u4", FALSE)

\* the first element of the RemoteOK feed (a legal notice, not a job)
RawNotice == Raw(<<>>, <<>>, <<>>, <<>>, "", FALSE)

JSearchAnswers  == {Raises, Non200, Ok(<<RawQA>>)}
AdzunaAnswers   == {Raises, Ok(<<>>), Ok(<<RawQA2>>)}
RemoteOKAnswers == {Raises, Non200, Ok(<<RawNotice>>),
                    Ok(<<RawNotice, RawQA2, RawDev>>), Ok(<<RawNotice, RawTest>>)}

MaxGenerated == 3  \* jobs NetherlandsJobAPI generates in one search

\* the draws of one generated job
NLDraws == {[title |-> 1, match_score |-> 75], [title |-> 2, match_score |-> 95]}

\* The draws of one search.  The code generates 2 or 3 jobs for each of 6
\* boards; the model generates from 2 (the fewest of a board) to
\* MaxGenerated jobs.
NLAnswers == UNION {[1..n -> NLDraws] : n \in 2..MaxGenerated}

\* what the providers answer to one search for a country; the Dutch boards
\* generate jobs only if search_all_apis calls them
Answers(country) ==
    [netherlands : IF SearchTasks(NoEnv, country)[1] = "netherlands"
                   THEN NLAnswers ELSE {<<>>},
     jsearch : JSearchAnswers, adzuna : AdzunaAnswers, remoteok : RemoteOKAnswers]

\* the process configurations: which variables are set
EnvConfigs == [RAPID_API_KEY : BOOLEAN, ADZUNA_APP_ID : BOOLEAN,
               ADZUNA_APP_KEY : BOOLEAN]

Queries == {<<"q","a">>, <<"d","e","v">>}
Countries == {<<>>, <<"N","e","t","h","e","r","l","a","n","d","s">>}

FullEnv == [RAPID_API_KEY |-> TRUE, ADZUNA_APP_ID |-> TRUE, ADZUNA_APP_KEY |-> TRUE]

NLDraw1 == [title |-> 1, match_score |-> 75]
NLDraw2 == [title |-> 2, match_score |-> 95]

\* What the providers answer to one query of a request: every provider
\* fails or has nothing; the providers list the same job in different
\* spellings; only a job of a rejected company is listed.
FeedNone == [netherlands |-> <<NLDraw1, NLDraw2>>, jsearch |-> Raises,
             adzuna |-> Ok(<<>>), remoteok |-> Non200]
FeedDup  == [netherlands |-> <<NLDraw1, NLDraw2, NLDraw1>>, jsearch |-> Ok(<<RawQA>>),
             adzuna |-> Ok(<<RawQA2>>), remoteok |-> Ok(<<RawNotice, RawQA2, RawDev>>)]
FeedTest == [netherlands |-> <<NLDraw1, NLDraw1>>, jsearch |-> Raises,
             adzuna |-> Raises, remoteok |-> Ok(<<RawNotice, RawTest>>)]

Feeds == {FeedNone, FeedDup, FeedTest}

\* what RemoteOK answers to the request get_real_job_recommendations makes itself
InlineAnswers == {Non200, Ok(<<RawNotice, RawQA2, RawDev>>), Ok(<<RawNotice, RawSales>>)}

\* use_cache arguments: the callers (main.py) pass True or leave the default
UseCache == {TRUE}

\* the profiles of the requests
RequestProfiles == {ProfileA, ProfileB}

\* the process configurations of the recommendation functions
Envs == {FullEnv}

MaxQueries == 3  \* search_queries[:3], line 795 (search_terms[:2], line 1052)

\* The answers to the queries of one request: the providers answer each
\* query of the request alike.
FeedLists == {[i \in 1..n |-> feed] : n \in 1..MaxQueries, feed \in Feeds}

\* the answers to the n queries of a request
FeedsFor(n) == {feeds \in FeedLists : Len(feeds) = n}

----------------------------------------------------------------------------
(* get_personalized_job_recommendations (job_services.py)                  *)

\* re.sub(r'[^\w\s]', ' ', job_title).strip()
clean_title(job_title) ==
    strip([i \in 1..Len(job_title) |->
              IF IsWordChar(job_title[i]) \/ IsSpace(job_title[i])
              THEN job_title[i] ELSE " "])

priority_skills ==
    <<<<"D","a","t","a"," ","E","n","g","i","n","e","e","r">>, <<"S","o","f","t","w","a","r","e"," ","E","n","g","i","n","e","e","r">>, <<"P","y","t","h","o","n">>, <<"J","a","v","a">>, <<"S","c","a","l","a">>,
      <<"A","W","S">>, <<"A","z","u","r","e">>, <<"G","C","P">>, <<"S","p","a","r","k">>, <<"K","a","f","k","a">>, <<"S","Q","L">>,
      <<"M","a","c","h","i","n","e"," ","L","e","a","r","n","i","n","g">>, <<"D","e","v","O","p","s">>, <<"K","u","b","e","r","n","e","t","e","s">>, <<"D","o","c","k","e","r">>,
      <<"M","i","c","r","o","s","e","r","v","i","c","e","s">>>>

\* the loop over skills that appends the priority skills to search_terms and
\* breaks once there are three terms
RECURSIVE AddSkillTerms(_, _)
AddSkillTerms(skills, search_terms) ==
    IF skills = <<>> THEN search_terms
    ELSE IF \E i \in 1..Len(priority_skills) : Contains(Head(skills), priority_skills[i])
         THEN IF Len(search_terms) + 1 >= 3
              THEN Append(search_terms, Head(skills))
              ELSE AddSkillTerms(Tail(skills), Append(search_terms, Head(skills)))
         ELSE AddSkillTerms(Tail(skills), search_terms)

\* search_terms of get_personalized_job_recommendations
PersonalizedSearchTerms(p) ==
    LET NonEmpty(t) == t # <<>>
        titles == Take(p.last_jobs, 2)
        from_titles == SelectSeq([i \in 1..Len(titles) |-> clean_title(titles[i])], NonEmpty)
        terms == AddSkillTerms(p.skills, from_titles)
    IN  IF terms = <<>>
        THEN <<<<"S","o","f","t","w","a","r","e"," ","E","n","g","i","n","e","e","r">>, <<"D","a","t","a"," ","E","n","g","i","n","e","e","r">>, <<"D","e","v","e","l","o","p","e","r">>>>
        ELSE terms

\* the removal of the later jobs with an earlier job's key, lines 1076-1084
RECURSIVE PersonalizedUnique(_, _)
PersonalizedUnique(all_jobs, seen_jobs) ==
    IF all_jobs = <<>> THEN <<>>
    ELSE LET job_key == lower(Head(all_jobs).title) \o <<"_">> \o lower(Head(all_jobs).company)
         IN  IF job_key \notin seen_jobs
             THEN <<Head(all_jobs)>> \o PersonalizedUnique(Tail(all_jobs), seen_jobs \cup {job_key})
             ELSE PersonalizedUnique(Tail(all_jobs), seen_jobs)

\* user_country (line 990) and search_terms[:2] (line 1052) of each profile
ProfileCountry ==
    [p \in Profiles |->
        IF p.location # <<>> THEN _extract_country_from_location(p.location) ELSE <<>>]
PersonalizedQueries == [p \in Profiles |-> Take(PersonalizedSearchTerms(p), 2)]

\* ttl_minutes of the cache_jobs calls of the recommendation functions
ProfileTtlMinutes == 30

\* the searches of one request: search_all_apis for each query in turn
SearchEach(e, queries, location, country, feeds) ==
    [i \in 1..Len(queries) |-> search_all_apis(e, queries[i], location, country, feeds[i])]

\* all_jobs.extend(api_jobs) over the searches
FoundJobs(found) == Concat([i \in 1..Len(found) |-> found[i].jobs])

\* lines 1076-1095: duplicates removed, ordered by location, the first 15
\* validated
PersonalizedFinal(p, all_jobs) ==
    SelectSeq(Take(_prioritize_jobs_by_location(PersonalizedUnique(all_jobs, {}),
                                                p.location, ProfileCountry[p]), 15),
              validate_job_posting)

\* the outcome of the fetch: the list, the clients called for each query and
\* the postings the clients returned
Fetched(final_jobs, inline_jobs, found) ==
    [jobs    |-> final_jobs,
     calls   |-> [i \in 1..Len(found) |-> found[i].calls],
     fetched |-> inline_jobs \o Concat([i \in 1..Len(found) |-> found[i].all_jobs])]

PersonalizedFetchOf(p, found) ==
    Fetched(PersonalizedFinal(p, FoundJobs(found)), <<>>, found)

\* What get_personalized_job_recommendations fetches after the cache misses,
\* lines 987-1095.  feeds[i] is what the providers answer to the i-th query.
PersonalizedFetch(e, p, feeds) ==
    PersonalizedFetchOf(p, SearchEach(e, PersonalizedQueries[p], ProfileCountry[p],
                                      ProfileCountry[p], feeds))

\* PersonalizedFetch of every environment, profile and answers of the model
PersonalizedFetched ==
    [x \in {<<e, p, feeds>> : e \in Envs, p \in RequestProfiles, feeds \in FeedLists} |->
        IF Len(x[3]) = Len(PersonalizedQueries[x[2]])
        THEN PersonalizedFetch(x[1], x[2], x[3]) ELSE <<>>] @@ <<>>

\* (mutant) the list is stored whether it is empty or not
ShouldStore_always(use_cache, final_jobs) == use_cache

\* "if use_cache and final_jobs:", lines 1100 and 889
ShouldStore(use_cache, final_jobs) == use_cache /\ final_jobs # <<>>

\* lines 1097-1120: the fetched list f.jobs is cached for the profile and for
\* the user, and returned
PersonalizedStore(c, st, us, p, user_id, use_cache, t, f) ==
    LET final_jobs == f.jobs
        store == ShouldStore(use_cache, final_jobs)
        stored == JobCache_set_at(c, st, KeyTable[p], final_jobs, ProfileTtlMinutes, t)
    IN  [cache    |-> IF store THEN stored.cache ELSE c,
         stats    |-> IF store THEN stored.stats ELSE st,
         sessions |-> IF store /\ user_id # ""
                      THEN set_user_jobs_at(us, user_id, final_jobs, p, t) ELSE us,
         res      |-> final_jobs,
         calls    |-> f.calls,
         fetched  |-> f.fetched]

\* The part of get_personalized_job_recommendations after the cache misses.
PersonalizedFresh(c, st, us, e, p, user_id, use_cache, t, feeds) ==
    PersonalizedStore(c, st, us, p, user_id, use_cache, t, PersonalizedFetched[<<e, p, feeds>>])

\* get_personalized_job_recommendations at time t; user_id "" is None
get_personalized_job_recommendations(c, st, us, e, p, user_id, use_cache, t, feeds) ==
    LET u == IF use_cache /\ user_id # ""
             THEN get_user_jobs_at(us, user_id, t, t)
             ELSE [sessions |-> us, res |-> None]
        g == IF use_cache
             THEN JobCache_get_at(c, st, KeyTable[p], t, t)
             ELSE [cache |-> c, stats |-> st, res |-> None]
    IN  IF Truthy(u.res)
        THEN [cache |-> c, stats |-> st, sessions |-> u.sessions,
              res |-> u.res.jobs, calls |-> <<>>, fetched |-> <<>>]
        ELSE IF Truthy(g.res)
        THEN [cache |-> g.cache, stats |-> g.stats,
              sessions |-> IF user_id # ""
                           THEN set_user_jobs_at(u.sessions, user_id, g.res.jobs, p, t)
                           ELSE u.sessions,
              res |-> g.res.jobs, calls |-> <<>>, fetched |-> <<>>]
        ELSE PersonalizedFresh(g.cache, g.stats, u.sessions, e, p, user_id, use_cache, t, feeds)

----------------------------------------------------------------------------
(* get_real_job_recommendations (job_services.py)                          *)

\* the jobs parsed inline from the RemoteOK feed, lines 688-714: data[1:11],
\* title and company as the feed gives them
InlineRemoteOK(out) ==
    IF out.kind = "ok" /\ out.data # <<>>
    THEN LET items == Take(Tail(out.data), 10)
         IN  [i \in 1..Len(items) |->
                Posting(items[i].title, items[i].company, <<"R","e","m","o","t","e">>, <<"G","l","o","b","a","l">>,
                        TRUE, "RemoteOK", items[i].url, 80)]
    ELSE <<>>

\* The titles the model gives get_real_job_recommendations hold no at sign,
\* no plus sign, no digit and no word in certif-, so that the substitutions
\* of lines 741-745 leave them as they are.
PlainTitle(t) ==
    /\ \A i \in 1..Len(t) :
          /\ t[i] \notin {"@", "+"}
          /\ \A d \in 1..Len(DigitChars) : t[i] # DigitChars[d]
    /\ ~Contains(lower(t), <<"c","e","r","t","i","f">>)

\* search_queries after the loop over last_two_jobs, lines 738-753
RECURSIVE TitleQueries(_, _)
TitleQueries(last_two_jobs, search_queries) ==
    IF last_two_jobs = <<>> THEN search_queries
    ELSE LET job_title == Head(last_two_jobs)
             title == strip(job_title)
         IN  IF Len(strip(job_title)) > 2 /\ Len(title) > 5
             THEN IF \E keyword \in {<<"d","a","t","a"," ","e","n","g","i","n","e","e","r">>, <<"d","a","t","a"," ","a","r","c","h","i","t","e","c","t">>, <<"d","a","t","a"," ","p","l","a","t","f","o","r","m">>, <<"d","a","t","a"," ","p","i","p","e","l","i","n","e">>} :
                         Contains(lower(title), keyword)
                  THEN TitleQueries(Tail(last_two_jobs), <<title>> \o search_queries)
                  ELSE TitleQueries(Tail(last_two_jobs), Append(search_queries, title))
             ELSE TitleQueries(Tail(last_two_jobs), search_queries)

\* data_skills after the loop over skills[:10], lines 756-764
RECURSIVE DataSkills(_, _)
DataSkills(skills, data_skills) ==
    IF skills = <<>> THEN data_skills
    ELSE LET skill_clean == strip(Head(skills))
         IN  IF /\ Len(skill_clean) > 2
                /\ ~Contains(lower(skill_clean), <<"c","e","r","t","i","f","i","e","d">>)
                /\ ~Contains(lower(skill_clean), <<"c","e","r","t","i","f","i","c","a","t","i","o","n">>)
             THEN IF \E data_tech \in {<<"p","y","t","h","o","n">>, <<"s","q","l">>, <<"s","p","a","r","k">>, <<"k","a","f","k","a">>, <<"a","i","r","f","l","o","w">>,
                                       <<"s","n","o","w","f","l","a","k","e">>, <<"a","w","s">>, <<"a","z","u","r","e">>, <<"d","a","t","a">>} :
                         Contains(lower(skill_clean), data_tech)
                  THEN DataSkills(Tail(skills), <<skill_clean>> \o data_skills)
                  ELSE DataSkills(Tail(skills), Append(data_skills, skill_clean))
             ELSE DataSkills(Tail(skills), data_skills)

\* search_queries of get_real_job_recommendations, lines 734-788
RealSearchQueries(p) ==
    LET from_titles == TitleQueries(p.last_jobs, <<>>)
        data_skills == DataSkills(Take(p.skills, 10), <<>>)
        with_skills ==
            IF data_skills = <<>> THEN from_titles
            ELSE IF Len(data_skills) >= 3
            THEN from_titles \o <<<<"D","a","t","a"," ","E","n","g","i","n","e","e","r"," ">> \o join(<<" ">>, Take(data_skills, 3)),
                                  <<"D","a","t","a"," ","A","r","c","h","i","t","e","c","t"," ">> \o join(<<" ">>, Take(data_skills, 2))>>
            ELSE Append(from_titles, <<"D","a","t","a"," ","E","n","g","i","n","e","e","r"," ">> \o join(<<" ">>, data_skills))
        user_skills_lower == [i \in 1..Len(p.skills) |-> lower(p.skills[i])]
        Has(words) == \E i \in 1..Len(user_skills_lower) : user_skills_lower[i] \in words
    IN  IF with_skills # <<>> THEN with_skills
        ELSE IF \E i \in 1..Len(user_skills_lower) : Contains(user_skills_lower[i], <<"d","a","t","a">>)
        THEN IF Has({<<"a","r","c","h","i","t","e","c","t">>, <<"a","r","c","h","i","t","e","c","t","u","r","e">>, <<"s","o","l","u","t","i","o","n">>})
             THEN <<<<"D","a","t","a"," ","A","r","c","h","i","t","e","c","t">>, <<"S","o","l","u","t","i","o","n"," ","A","r","c","h","i","t","e","c","t"," ","D","a","t","a">>, <<"D","a","t","a"," ","P","l","a","t","f","o","r","m"," ","A","r","c","h","i","t","e","c","t">>>>
             ELSE <<<<"D","a","t","a"," ","E","n","g","i","n","e","e","r">>, <<"S","e","n","i","o","r"," ","D","a","t","a"," ","E","n","g","i","n","e","e","r">>, <<"D","a","t","a"," ","P","i","p","e","l","i","n","e"," ","E","n","g","i","n","e","e","r">>>>
        ELSE IF Has({<<"s","o","f","t","w","a","r","e">>, <<"d","e","v","e","l","o","p","e","r">>, <<"p","r","o","g","r","a","m","m","i","n","g">>})
        THEN <<<<"S","o","f","t","w","a","r","e"," ","E","n","g","i","n","e","e","r">>, <<"B","a","c","k","e","n","d"," ","E","n","g","i","n","e","e","r">>, <<"F","u","l","l"," ","S","t","a","c","k"," ","E","n","g","i","n","e","e","r">>>>
        ELSE <<<<"S","o","f","t","w","a","r","e"," ","D","e","v","e","l","o","p","e","r">>, <<"E","n","g","i","n","e","e","r">>>>

\* the removal of duplicates of lines 823-834: a key is seen once, and the
\* job is kept if it has a title and a company
RECURSIVE RealUnique(_, _)
RealUnique(all_real_jobs, seen_jobs) ==
    IF all_real_jobs = <<>> THEN <<>>
    ELSE LET job == Head(all_real_jobs)
             job_key == <<lower(job.title), lower(job.company)>>
         IN  IF job_key \notin seen_jobs
             THEN (IF job.title # <<>> /\ job.company # <<>> THEN <<job>> ELSE <<>>)
                  \o RealUnique(Tail(all_real_jobs), seen_jobs \cup {job_key})
             ELSE RealUnique(Tail(all_real_jobs), seen_jobs)

\* the profile-aware filter of lines 836-872
RelevantJob(job, last_two_jobs) ==
    LET job_title_lower == lower(job.title)
        TitleHas(words) == \E w \in words : Contains(job_title_lower, w)
        user_is_data_professional ==
            \E keyword \in {<<"d","a","t","a"," ","e","n","g","i","n","e","e","r">>, <<"d","a","t","a"," ","a","r","c","h","i","t","e","c","t">>, <<"d","a","t","a"," ","s","c","i","e","n","t","i","s","t">>,
                            <<"d","a","t","a"," ","a","n","a","l","y","s","t">>, <<"d","a","t","a"," ","p","l","a","t","f","o","r","m">>} :
                Contains(lower(join(<<" ">>, last_two_jobs)), keyword)
    IN  IF user_is_data_professional
        THEN \/ TitleHas({<<"d","a","t","a"," ","e","n","g","i","n","e","e","r">>, <<"d","a","t","a"," ","a","r","c","h","i","t","e","c","t">>, <<"d","a","t","a"," ","s","c","i","e","n","t","i","s","t">>, <<"d","a","t","a"," ","a","n","a","l","y","s","t">>,
                     <<"d","a","t","a"," ","p","l","a","t","f","o","r","m">>, <<"d","a","t","a"," ","p","i","p","e","l","i","n","e">>, <<"a","n","a","l","y","t","i","c","s"," ","e","n","g","i","n","e","e","r">>, <<"m","l"," ","e","n","g","i","n","e","e","r">>,
                     <<"m","a","c","h","i","n","e"," ","l","e","a","r","n","i","n","g">>, <<"b","i","g"," ","d","a","t","a">>, <<"e","t","l">>, <<"d","a","t","a"," ","w","a","r","e","h","o","u","s","e">>})
             \/ /\ TitleHas({<<"s","o","l","u","t","i","o","n"," ","a","r","c","h","i","t","e","c","t">>, <<"c","l","o","u","d"," ","a","r","c","h","i","t","e","c","t">>, <<"p","l","a","t","f","o","r","m"," ","e","n","g","i","n","e","e","r">>,
                        <<"d","e","v","o","p","s"," ","e","n","g","i","n","e","e","r">>, <<"i","n","f","r","a","s","t","r","u","c","t","u","r","e"," ","e","n","g","i","n","e","e","r">>})
                /\ TitleHas({<<"s","e","n","i","o","r">>, <<"l","e","a","d">>, <<"p","r","i","n","c","i","p","a","l">>})
        ELSE TitleHas({<<"e","n","g","i","n","e","e","r">>, <<"d","e","v","e","l","o","p","e","r">>, <<"a","r","c","h","i","t","e","c","t">>, <<"a","n","a","l","y","s","t">>, <<"s","c","i","e","n","t","i","s","t">>})

\* search_queries[:3] (line 795) of each profile
RealQueries == [p \in Profiles |-> Take(RealSearchQueries(p), 3)]

\* The profiles get_real_job_recommendations is called with: no country is
\* detected, so that line 883 sorts by match_score, and the titles are plain.
RealProfiles ==
    {p \in RequestProfiles : /\ ProfileCountry[p] = <<>>
                      /\ \A i \in 1..Len(p.last_jobs) : PlainTitle(p.last_jobs[i])}

\* lines 823-886: duplicates removed, the profile-aware filter, the sort by
\* match_score, the first 15
RealFinal(p, all_real_jobs) ==
    LET Relevant(job) == RelevantJob(job, p.last_jobs)
    IN  Take(sorted_by_match_score(SelectSeq(RealUnique(all_real_jobs, {}), Relevant)), 15)

\* the outcome of the fetch, with unique_jobs (lines 823-834) beside it
RealFetchOf(p, remoteok_jobs, found) ==
    [unique |-> RealUnique(remoteok_jobs \o FoundJobs(found), {})]
    @@ Fetched(RealFinal(p, remoteok_jobs \o FoundJobs(found)), remoteok_jobs, found)

\* What get_real_job_recommendations fetches after the cache miss, lines
\* 678-886, for a profile without a detected country (the jobs are then
\* sorted by match_score).  inline is the answer to the function's own
\* request to RemoteOK, feeds[i] what the providers answer to the i-th query.
RealFetch(e, p, inline, feeds) ==
    RealFetchOf(p, InlineRemoteOK(inline),
                SearchEach(e, RealQueries[p], p.location, ProfileCountry[p], feeds))

\* RealFetch of every environment, profile and answers of the model
RealFetched ==
    [x \in {<<e, p, inline, feeds>> : e \in Envs, p \in RealProfiles,
                                      inline \in InlineAnswers, feeds \in FeedLists} |->
        IF Len(x[4]) = Len(RealQueries[x[2]])
        THEN RealFetch(x[1], x[2], x[3], x[4]) ELSE <<>>] @@ <<>>

\* lines 888-896: the fetched list f.jobs is cached for the profile and
\* returned
RealStore(c, st, p, use_cache, t, f) ==
    LET final_jobs == f.jobs
        store == ShouldStore(use_cache, final_jobs)
        stored == JobCache_set_at(c, st, KeyTable[p], final_jobs, ProfileTtlMinutes, t)
    IN  [cache    |-> IF store THEN stored.cache ELSE c,
         stats    |-> IF store THEN stored.stats ELSE st,
         res      |-> final_jobs,
         calls    |-> f.calls,
         fetched  |-> f.fetched,
         unique   |-> f.unique]

\* The part of get_real_job_recommendations after the cache miss.
RealFresh(c, st, e, p, use_cache, t, inline, feeds) ==
    RealStore(c, st, p, use_cache, t, RealFetched[<<e, p, inline, feeds>>])

\* get_real_job_recommendations at time t
get_real_job_recommendations(c, st, e, p, use_cache, t, inline, feeds) ==
    LET g == IF use_cache
             THEN JobCache_get_at(c, st, KeyTable[p], t, t)
             ELSE [cache |-> c, stats |-> st, res |-> None]
    IN  IF Truthy(g.res)
        THEN [cache |-> g.cache, stats |-> g.stats, res |-> g.res.jobs,
              calls |-> <<>>, fetched |-> <<>>, unique |-> <<>>]
        ELSE RealFresh(g.cache, g.stats, e, p, use_cache, t, inline, feeds)

----------------------------------------------------------------------------
(* JobAggregator.search_all_apis on its own                                *)

\* one call of search_all_apis
SearchAllApis(query, country, a) ==
    /\ LET r == search_all_apis(env, query, country, country, a)
       IN  last' = [Did("search", NoProfile, "", <<>>, Some(r.jobs), TRUE)
                      EXCEPT !.calls = <<r.calls>>,
                             !.args = [query |-> query, country |-> country, answers |-> a]]
    /\ UNCHANGED <<now, cache, stats, user_sessions, env, gathering, lock, threads, set_keys>>

InitAgg ==
    /\ now = 0
    /\ cache = EmptyDict
    /\ stats = ZeroStats
    /\ user_sessions = EmptyDict
    /\ env \in EnvConfigs
    /\ lock = FreeLocks
    /\ threads = IdleThreads
    /\ gathering = NotGathering
    /\ set_keys = {}
    /\ last = InitLast

\* search_all_apis is called once, with any query and country, under any
\* answers of the providers
NextAgg ==
    /\ last.op = "init"
    /\ \E query \in Queries : \E country \in Countries : \E a \in Answers(country) :
          SearchAllApis(query, country, a)

SpecAgg == InitAgg /\ [][NextAgg]_vars

\* the key of a posting: title and company in lower case, trimmed
NormKey(job) == <<strip(lower(job.title)), strip(lower(job.company))>>

\* the source field of the postings of a client
SourceOf(c) ==
    IF c = "netherlands" THEN "Indeed Netherlands"
    ELSE IF c = "jsearch" THEN "LinkedIn/Indeed (JSearch)"
    ELSE IF c = "adzuna" THEN "Indeed/LinkedIn (Adzuna)"
    ELSE "RemoteOK"

\* the request of client c failed (the generator of the Dutch boards makes none)
Failed(c, a) == c # "netherlands" /\ a[c].kind # "ok"

(* C8: whichever clients fail (raise, time out, answer with a status other *)
(* than 200), search_all_apis returns normally; a failing client           *)
(* contributes no posting; every posting returned comes from a client that *)
(* succeeded; and every posting of a client that succeeded is in the       *)
(* result, or a posting with the same (title, company) key is, the         *)
(* aggregator keeping one posting for each key.                            *)
C8_FailureIsolation ==
    last.op = "search" =>
        LET a == last.args.answers
            tasks == last.calls[1]
            res == last.res.jobs
            of == [i \in 1..Len(tasks) |-> ClientResult(tasks[i], env, last.args.query, a)]
            keys == {NormKey(res[k]) : k \in 1..Len(res)}
        IN  /\ last.ok /\ last.res.some
            /\ \A i \in 1..Len(tasks) :
                 IF Failed(tasks[i], a)
                 THEN /\ of[i] = <<>>
                      /\ \A k \in 1..Len(res) : res[k].source # SourceOf(tasks[i])
                 ELSE \A j \in 1..Len(of[i]) :
                        \/ NormKey(of[i][j]) = << <<>>, <<>> >>
                        \/ NormKey(of[i][j]) \in keys
            /\ \A k \in 1..Len(res) :
                 \E i \in 1..Len(tasks) :
                    /\ ~Failed(tasks[i], a)
                    /\ \E j \in 1..Len(of[i]) : of[i][j] = res[k]

\* JSearch answered with an error status, Adzuna raised, and the posting of
\* RemoteOK was returned all the same
C8_Witness ==
    /\ last.op = "search"
    /\ last.calls[1] = <<"jsearch", "adzuna", "remoteok">>
    /\ last.args.answers.jsearch.kind = "status"
    /\ last.args.answers.adzuna.kind = "raise"
    /\ last.args.answers.remoteok.kind = "ok"
    /\ Len(last.res.jobs) = 1
    /\ last.res.jobs[1].source = SourceOf("remoteok")

\* the credentials the process configuration supplies for client c
HasCredentials(c, e) ==
    IF c = "jsearch" THEN e.RAPID_API_KEY
    ELSE IF c = "adzuna" THEN e.ADZUNA_APP_ID /\ e.ADZUNA_APP_KEY
    ELSE TRUE

(* C9: search_all_apis issues no search call to a client for which the     *)
(* process configuration supplies no credentials (RAPID_API_KEY for        *)
(* JSearch, ADZUNA_APP_ID and ADZUNA_APP_KEY for Adzuna).                  *)
C9_NoCallWithoutCredentials ==
    last.op = "search" =>
        \A i \in 1..Len(last.calls[1]) : HasCredentials(last.calls[1][i], env)

----------------------------------------------------------------------------
(* The recommendation functions over the two caches                        *)

MaxRequests == 2  \* profile-cache lookups of the recommendation functions in a behaviour

\* user_id arguments; "" is None
Users == {"", "u1"}

\* the list served for the key of p after a request without a user returned res
Serve(p, user_id, use_cache, res, calls) ==
    IF user_id = "" /\ use_cache /\ res # <<>>
    THEN [k \in (DOMAIN last.served) \cup {KeyTable[p]} |->
            IF k = KeyTable[p]
            THEN [jobs  |-> res,
                  until |-> IF calls = <<>> THEN cache[k].expires_at
                            ELSE now + ProfileTtlMinutes]
            ELSE last.served[k]]
    ELSE last.served

\* a list was served for the key of p and the entry behind it still lives
Within(p) ==
    /\ KeyTable[p] \in DOMAIN last.served
    /\ now <= last.served[KeyTable[p]].until

\* the call of get_personalized_job_recommendations has the outcome r
PersonalizedReturn(p, user_id, use_cache, r) ==
    /\ r.stats.hits + r.stats.misses <= MaxRequests
    /\ cache' = r.cache
    /\ stats' = r.stats
    /\ user_sessions' = r.sessions
    /\ set_keys' = IF r.stats.sets # stats.sets THEN set_keys \cup {KeyTable[p]} ELSE set_keys
    /\ last' = [Did("personalized", p, user_id, <<>>, Some(r.res), TRUE)
                  EXCEPT !.calls = r.calls, !.fetched = r.fetched,
                         !.args = [use_cache |-> use_cache, within |-> Within(p)],
                         !.served = Serve(p, user_id, use_cache, r.res, r.calls)]
    /\ UNCHANGED <<now, env, gathering, lock, threads>>

\* a call of get_personalized_job_recommendations
PersonalizedRequest(p, user_id, use_cache, feeds) ==
    PersonalizedReturn(p, user_id, use_cache,
                       get_personalized_job_recommendations(cache, stats, user_sessions, env,
                                                            p, user_id, use_cache, now, feeds))

\* the call of get_real_job_recommendations has the outcome r
RealReturn(p, use_cache, r) ==
    /\ r.stats.hits + r.stats.misses <= MaxRequests
    /\ cache' = r.cache
    /\ stats' = r.stats
    /\ set_keys' = IF r.stats.sets # stats.sets THEN set_keys \cup {KeyTable[p]} ELSE set_keys
    /\ last' = [Did("real", p, "", <<>>, Some(r.res), TRUE)
                  EXCEPT !.calls = r.calls, !.fetched = r.fetched,
                         !.args = [use_cache |-> use_cache, within |-> Within(p),
                                   unique |-> r.unique]]
    /\ UNCHANGED <<now, user_sessions, env, gathering, lock, threads>>

\* a call of get_real_job_recommendations
RealRequest(p, use_cache, inline, feeds) ==
    RealReturn(p, use_cache,
               get_real_job_recommendations(cache, stats, env, p, use_cache, now, inline, feeds))

\* POST /api/cache/refresh/{user_id} (main.py): refresh_user_cache
RefreshUser(user_id) ==
    /\ user_sessions' = refresh_user_jobs_at(user_sessions, user_id)
    /\ last' = Did("refresh_user", NoProfile, user_id, <<>>, None, TRUE)
    /\ UNCHANGED <<now, cache, stats, env, gathering, lock, threads, set_keys>>

\* DELETE /api/cache/user/{user_id} (main.py): invalidate_user_cache
InvalidateUser(user_id) ==
    /\ LET r == invalidate_user_at(user_sessions, user_id)
       IN  /\ user_sessions' = r.sessions
           /\ last' = Did("invalidate_user", NoProfile, user_id, <<>>, None, r.res)
    /\ UNCHANGED <<now, cache, stats, env, gathering, lock, threads, set_keys>>

\* DELETE /api/cache/clear-all (main.py)
ClearAllJobCache ==
    /\ cache' = EmptyDict
    /\ user_sessions' = EmptyDict
    /\ last' = Did("clear_all", NoProfile, "", <<>>, None, TRUE)
    /\ UNCHANGED <<now, stats, env, gathering, lock, threads, set_keys>>

Init ==
    /\ now = 0
    /\ cache = EmptyDict
    /\ stats = ZeroStats
    /\ user_sessions = EmptyDict
    /\ env = FullEnv
    /\ lock = FreeLocks
    /\ threads = IdleThreads
    /\ gathering = NotGathering
    /\ set_keys = {}
    /\ last = InitLast

\* the lookups of the profile cache are bounded
LookupsLeft == stats.hits + stats.misses <= MaxRequests

Next ==
    \/ /\ LookupsLeft
       /\ \E p \in RequestProfiles : \E user_id \in Users : \E use_cache \in UseCache :
            \E feeds \in FeedsFor(Len(PersonalizedQueries[p])) :
               PersonalizedRequest(p, user_id, use_cache, feeds)
    \/ /\ LookupsLeft
       /\ \E p \in RealProfiles : \E use_cache \in UseCache : \E inline \in InlineAnswers :
            \E feeds \in FeedsFor(Len(RealQueries[p])) :
               RealRequest(p, use_cache, inline, feeds)
    \/ \E user_id \in Users \ {""} : RefreshUser(user_id)
    \/ \E user_id \in Users \ {""} : InvalidateUser(user_id)
    \/ \E p \in Profiles : CacheInvalidate(p)
    \/ ClearAllJobCache
    \/ Advance

\* the recommendation functions, the cache endpoints and the clock
Spec == Init /\ [][Next]_vars

----------------------------------------------------------------------------
(* Properties of the recommendation functions                              *)

\* this step is a call of a recommendation function
RequestStep == OpStep /\ last'.op \in {"personalized", "real"}

(* C1: after get_personalized_job_recommendations(P, use_cache=True)       *)
(* (no user_id) returned a non-empty list L, a second call with the same   *)
(* profile made while the profile entry lives (30 minutes), with no        *)
(* invalidate or clear-all in between, returns exactly L, and no           *)
(* search_all_apis call is made by it.                                     *)
C1_SecondCallFromCache ==
    [][(/\ RequestStep /\ last'.op = "personalized"
        /\ last'.user = "" /\ last'.args.use_cache
        /\ Within(last'.p)) =>
            /\ last'.res = Some(last.served[KeyTable[last'.p]].jobs)
            /\ last'.calls = <<>>
    ]_vars

\* a second call at the very end of the 30 minutes returned the list of the
\* first and called no client
C1_Witness ==
    /\ last.op = "personalized" /\ last.user = "" /\ last.args.use_cache
    /\ last.args.within
    /\ last.calls = <<>>
    /\ last.res.jobs # <<>>
    /\ last.res = Some(last.served[KeyTable[last.p]].jobs)
    /\ now = last.served[KeyTable[last.p]].until
    /\ now = ProfileTtlMinutes

(* C7 as claimed: in every list returned by a fresh aggregation            *)
(* (get_personalized_job_recommendations or get_real_job_recommendations   *)
(* on a cache miss) no two postings have the same (title, company) key,    *)
(* the key being the lower-cased, trimmed title and company.               *)
C7_NoDuplicateKeys ==
    (last.op \in {"personalized", "real"} /\ last.calls # <<>>) =>
        \A i, j \in 1..Len(last.res.jobs) :
            i # j => NormKey(last.res.jobs[i]) # NormKey(last.res.jobs[j])

\* no entry of the profile cache and no user session holds an empty list
NoEmptyPayload ==
    /\ \A k \in DOMAIN cache : cache[k].jobs # <<>>
    /\ \A u \in DOMAIN user_sessions : user_sessions[u].jobs # <<>>

\* this step is a request that fetched, and no client returned a posting
EmptyFetch ==
    /\ RequestStep
    /\ last'.calls # <<>>
    /\ last'.fetched = <<>>

(* C10 as claimed: when every client returns no postings or fails, the     *)
(* request returns the empty list, the sets counter, the number of entries *)
(* of the profile cache and the user-session map are unchanged, and the    *)
(* lookup counts as one miss; and no entry with an empty payload is ever   *)
(* stored.                                                                 *)
C10_Original ==
    /\ []NoEmptyPayload
    /\ [][EmptyFetch =>
            /\ last'.res = Some(<<>>)
            /\ stats'.sets = stats.sets
            /\ Cardinality(DOMAIN cache') = Cardinality(DOMAIN cache)
            /\ user_sessions' = user_sessions
            /\ stats'.misses = stats.misses + 1
       ]_vars

(* C10 amended: when every client returns no postings or fails, the        *)
(* request returns the empty list and stores nothing: the sets counter is  *)
(* unchanged, no entry and no session is added or altered, and the lookup  *)
(* counts as one miss and no hit; the entries and sessions that have       *)
(* expired by the time of the request are removed by its lookups (the      *)
(* entries counted as evictions).  No entry with an empty payload is ever  *)
(* stored.                                                                 *)
C10_NothingStored ==
    /\ []NoEmptyPayload
    /\ [][EmptyFetch =>
            /\ last'.res = Some(<<>>)
            /\ stats'.sets = stats.sets
            /\ stats'.misses = stats.misses + 1
            /\ stats'.hits = stats.hits
            /\ \A k \in DOMAIN cache' : k \in DOMAIN cache /\ cache'[k] = cache[k]
            /\ (DOMAIN cache) \ (DOMAIN cache') = ExpiredKeys(cache, now)
            /\ stats'.evictions = stats.evictions + Cardinality(ExpiredKeys(cache, now))
            /\ \A u \in DOMAIN user_sessions' :
                   u \in DOMAIN user_sessions /\ user_sessions'[u] = user_sessions[u]
            /\ (DOMAIN user_sessions) \ (DOMAIN user_sessions') \subseteq
                   ExpiredUsers(user_sessions, now)
       ]_vars

\* a request for which every client failed or had nothing returned the
\* empty list, and its lookup removed the expired entry of another profile
C10_Witness ==
    /\ last.op \in {"personalized", "real"}
    /\ last.calls # <<>> /\ last.fetched = <<>>
    /\ last.res = Some(<<>>)
    /\ stats.misses = last.pre.stats.misses + 1
    /\ stats.sets = last.pre.stats.sets
    /\ stats.evictions > last.pre.stats.evictions
    /\ KeyTable[last.p] \notin DOMAIN cache

----------------------------------------------------------------------------
(* The origin of the postings                                              *)

\* the source fields of the postings of the clients that send a search
\* request to an external job source
ExternalSources == {SourceOf(c) : c \in {"jsearch", "adzuna", "remoteok"}}

(* C11 as claimed: every posting get_personalized_job_recommendations      *)
(* returns, freshly aggregated or served from a cache, was returned by an  *)
(* external job source in answer to a search call; the pipeline generates  *)
(* no posting itself, whatever the country of the candidate.               *)
C11_NoFabricatedPostings ==
    last.op = "personalized" =>
        \A i \in 1..Len(last.res.jobs) : last.res.jobs[i].source \in ExternalSources

----------------------------------------------------------------------------
(* The profile-aware filter of get_real_job_recommendations                *)

(* C12 as claimed: the profile-aware filter of get_real_job_recommendations *)
(* never eliminates all results: whenever a fresh aggregation leaves a     *)
(* non-empty list of deduplicated postings, the returned list is not empty. *)
C12_FilterKeepsSomething ==
    (last.op = "real" /\ last.calls # <<>> /\ last.args.unique # <<>>) =>
        last.res.jobs # <<>>

----------------------------------------------------------------------------
(* Ranking by relevance and location (job_services.py)                     *)

\* A posting as _prioritize_jobs_by_relevance_and_location sees it: its
\* location, country and remote fields, and what the scoring functions
\* return for it and the candidate: _calculate_job_title_relevance,
\* _calculate_skills_match and _calculate_experience_match (each a number
\* from 0 to 100) and _calculate_job_relevance_score.  id is the position
\* of the posting in the input list.
ScoredJob(id, place, scores) ==
    [id |-> id, location |-> place.location, country |-> place.country,
     remote |-> place.remote, job_title_score |-> scores.title,
     skills_match_score |-> scores.skills,
     experience_match_score |-> scores.experience,
     relevance_score |-> scores.relevance]

\* the lists of _get_location_priority_score, lines 331-333
priority_european_countries ==
    {<<"G","e","r","m","a","n","y">>, <<"A","u","s","t","r","i","a">>, <<"S","w","i","t","z","e","r","l","a","n","d">>, <<"N","e","t","h","e","r","l","a","n","d","s">>, <<"B","e","l","g","i","u","m">>, <<"U","n","i","t","e","d"," ","K","i","n","g","d","o","m">>,
     <<"S","w","e","d","e","n">>, <<"N","o","r","w","a","y">>, <<"D","e","n","m","a","r","k">>, <<"F","i","n","l","a","n","d">>, <<"F","r","a","n","c","e">>, <<"S","p","a","i","n">>, <<"I","t","a","l","y">>, <<"I","r","e","l","a","n","d">>,
     <<"P","o","l","a","n","d">>, <<"C","z","e","c","h"," ","R","e","p","u","b","l","i","c">>, <<"P","o","r","t","u","g","a","l">>}
english_speaking ==
    {<<"U","n","i","t","e","d"," ","S","t","a","t","e","s">>, <<"U","n","i","t","e","d"," ","K","i","n","g","d","o","m">>, <<"C","a","n","a","d","a">>, <<"A","u","s","t","r","a","l","i","a">>, <<"I","r","e","l","a","n","d">>, <<"S","i","n","g","a","p","o","r","e">>,
     <<"N","e","w"," ","Z","e","a","l","a","n","d">>}
tech_hubs ==
    {<<"U","n","i","t","e","d"," ","S","t","a","t","e","s">>, <<"U","n","i","t","e","d"," ","K","i","n","g","d","o","m">>, <<"G","e","r","m","a","n","y">>, <<"N","e","t","h","e","r","l","a","n","d","s">>, <<"C","a","n","a","d","a">>, <<"S","i","n","g","a","p","o","r","e">>,
     <<"U","A","E">>, <<"A","u","s","t","r","a","l","i","a">>, <<"S","w","i","t","z","e","r","l","a","n","d">>, <<"S","w","e","d","e","n">>, <<"D","e","n","m","a","r","k">>, <<"N","o","r","w","a","y">>}

\* tech_hubs of the branch without a user country, line 315
tech_hubs_no_user_country ==
    {<<"U","n","i","t","e","d"," ","S","t","a","t","e","s">>, <<"U","n","i","t","e","d"," ","K","i","n","g","d","o","m">>, <<"G","e","r","m","a","n","y">>, <<"N","e","t","h","e","r","l","a","n","d","s">>, <<"C","a","n","a","d","a">>, <<"S","i","n","g","a","p","o","r","e">>,
     <<"A","u","s","t","r","a","l","i","a">>}

\* is_remote or 'remote' in job_location.lower()
RemoteJob(is_remote, job_location) ==
    is_remote \/ Contains(lower(job_location), <<"r","e","m","o","t","e">>)

\* _get_location_priority_score
_get_location_priority_score(job_location, job_country, user_country, is_remote) ==
    IF user_country = <<>>
    THEN IF RemoteJob(is_remote, job_location) THEN 100
         ELSE IF job_country \in tech_hubs_no_user_country THEN 75
         ELSE 60
    ELSE IF job_country = user_country THEN 120
    ELSE IF RemoteJob(is_remote, job_location) THEN 100
    ELSE IF user_country \in priority_european_countries /\ job_country \in priority_european_countries
    THEN IF user_country \in {<<"N","e","t","h","e","r","l","a","n","d","s">>, <<"G","e","r","m","a","n","y">>, <<"B","e","l","g","i","u","m">>} /\ job_country \in {<<"N","e","t","h","e","r","l","a","n","d","s">>, <<"G","e","r","m","a","n","y">>, <<"B","e","l","g","i","u","m">>}
         THEN 90
         ELSE IF user_country \in {<<"S","w","e","d","e","n">>, <<"N","o","r","w","a","y">>, <<"D","e","n","m","a","r","k">>, <<"F","i","n","l","a","n","d">>} /\ job_country \in {<<"S","w","e","d","e","n">>, <<"N","o","r","w","a","y">>, <<"D","e","n","m","a","r","k">>, <<"F","i","n","l","a","n","d">>}
         THEN 90
         ELSE 85
    ELSE IF user_country \in english_speaking /\ job_country \in english_speaking THEN 85
    ELSE IF job_country \in tech_hubs THEN 75
    ELSE IF job_country \in english_speaking THEN 70
    ELSE IF user_country \in priority_european_countries /\ job_country \in priority_european_countries THEN 70
    ELSE 50

\* (mutant) the formula of the user's country is never chosen
combined_score_no_country(location_priority, job_title_score, skills_match_score, experience_match_score, job_country, user_country, is_remote) ==
    IF is_remote
    THEN location_priority * 40 + job_title_score * 25 + skills_match_score * 25
         + experience_match_score * 10 + 2000
    ELSE location_priority * 25 + job_title_score * 35 + skills_match_score * 25
         + experience_match_score * 15

\* (mutant) a remote posting uses the formula of remote postings even in
\* the user's country
combined_score_remote_first(location_priority, job_title_score, skills_match_score, experience_match_score, job_country, user_country, is_remote) ==
    IF is_remote
    THEN location_priority * 40 + job_title_score * 25 + skills_match_score * 25
         + experience_match_score * 10 + 2000
    ELSE IF user_country # <<>> /\ job_country = user_country
    THEN location_priority * 50 + job_title_score * 20 + skills_match_score * 20
         + experience_match_score * 10 + 4000
    ELSE location_priority * 25 + job_title_score * 35 + skills_match_score * 25
         + experience_match_score * 15

\* job['combined_score'] of lines 398-427, in hundredths: the weights 0.5,
\* 0.2, ... are 50, 20, ... and the bonus 40 is 4000
combined_score(location_priority, job_title_score, skills_match_score, experience_match_score, job_country, user_country, is_remote) ==
    IF user_country # <<>> /\ job_country = user_country
    THEN location_priority * 50 + job_title_score * 20 + skills_match_score * 20
         + experience_match_score * 10 + 4000
    ELSE IF is_remote
    THEN location_priority * 40 + job_title_score * 25 + skills_match_score * 25
         + experience_match_score * 10 + 2000
    ELSE location_priority * 25 + job_title_score * 35 + skills_match_score * 25
         + experience_match_score * 15

\* the posting with the scores of lines 374-430 written into it
ScoreWith(job, user_country, is_remote, location_priority) ==
    [id |-> job.id, location |-> job.location, country |-> job.country,
     remote |-> job.remote, relevance_score |-> job.relevance_score,
     location_priority |-> location_priority,
     job_title_score |-> job.job_title_score,
     experience_match_score |-> job.experience_match_score,
     skills_match_score |-> job.skills_match_score,
     combined_score |-> combined_score(location_priority, job.job_title_score,
                                       job.skills_match_score, job.experience_match_score,
                                       job.country, user_country, is_remote),
     match_score |-> job.relevance_score]

\* the body of the loop of lines 373-430 for one posting
ScoreJob(job, user_country) ==
    ScoreWith(job, user_country, RemoteJob(job.remote, job.location),
              _get_location_priority_score(job.location, job.country, user_country,
                                           RemoteJob(job.remote, job.location)))

\* the sort key of lines 433-439
RankKey(job) ==
    <<job.combined_score, job.location_priority, job.job_title_score,
      job.skills_match_score, job.experience_match_score>>

\* the tuple a is less than the tuple b (of the same length), as Python
\* compares tuples
RECURSIVE TupleLess(_, _)
TupleLess(a, b) ==
    /\ a # <<>>
    /\ \/ Head(a) < Head(b)
       \/ Head(a) = Head(b) /\ TupleLess(Tail(a), Tail(b))

\* (mutant) x is put before the elements of s with the same key
RECURSIVE InsertByRankKey_unstable(_, _)
InsertByRankKey_unstable(x, s) ==
    IF s = <<>> THEN <<x>>
    ELSE IF TupleLess(RankKey(x), RankKey(Head(s)))
         THEN <<Head(s)>> \o InsertByRankKey_unstable(x, Tail(s))
         ELSE <<x>> \o s

\* x put behind the elements of s whose key is at least the key of x
RECURSIVE InsertByRankKey(_, _)
InsertByRankKey(x, s) ==
    IF s = <<>> THEN <<x>>
    ELSE IF ~TupleLess(RankKey(Head(s)), RankKey(x))
         THEN <<Head(s)>> \o InsertByRankKey(x, Tail(s))
         ELSE <<x>> \o s

\* jobs.sort(key=..., reverse=True), lines 433-439: stable
RECURSIVE sort_by_rank_key(_)
sort_by_rank_key(jobs) ==
    IF jobs = <<>> THEN <<>>
    ELSE InsertByRankKey(jobs[Len(jobs)],
                         sort_by_rank_key(SubSeq(jobs, 1, Len(jobs) - 1)))

\* _prioritize_jobs_by_relevance_and_location
_prioritize_jobs_by_relevance_and_location(jobs, user_country) ==
    sort_by_rank_key([i \in 1..Len(jobs) |-> ScoreJob(jobs[i], user_country)])

----------------------------------------------------------------------------
(* The ranking functions on their own                                      *)

MaxRanked == 2  \* the longest list of postings ranked

\* the countries of the candidates: unknown, and one country of each group
RankUserCountries == {<<>>, <<"N","e","t","h","e","r","l","a","n","d","s">>, <<"U","n","i","t","e","d"," ","S","t","a","t","e","s">>}

\* where the postings are: the country, and whether the remote field or the
\* location text says remote
RankPlaces ==
    {[country |-> c, remote |-> r[1], location |-> r[2]] :
        c \in {<<>>, <<"N","e","t","h","e","r","l","a","n","d","s">>, <<"G","e","r","m","a","n","y">>, <<"I","n","d","i","a">>},
        r \in {<<FALSE, <<"P","u","n","e">>>>, <<TRUE, <<"P","u","n","e">>>>, <<FALSE, <<"R","e","m","o","t","e",","," ","E","U">>>>}}

\* what the scoring functions return for a posting
RankScores ==
    {[title |-> 0, skills |-> 0, experience |-> 50, relevance |-> 10],
     [title |-> 100, skills |-> 0, experience |-> 60, relevance |-> 40],
     [title |-> 0, skills |-> 100, experience |-> 60, relevance |-> 50],
     [title |-> 100, skills |-> 100, experience |-> 100, relevance |-> 100]}

\* the postings given to the ranking, without their position
RankJobs == RankPlaces \X RankScores

\* the list of the postings f[1], f[2], ...
RankInput(f) == [i \in DOMAIN f |-> ScoredJob(i, f[i][1], f[i][2])]

\* the arguments of _get_location_priority_score
LocationCountries ==
    {<<>>, <<"N","e","t","h","e","r","l","a","n","d","s">>, <<"G","e","r","m","a","n","y">>, <<"N","o","r","w","a","y">>, <<"S","w","e","d","e","n">>, <<"F","r","a","n","c","e">>, <<"U","n","i","t","e","d"," ","S","t","a","t","e","s">>,
     <<"C","a","n","a","d","a">>, <<"S","w","i","t","z","e","r","l","a","n","d">>, <<"N","e","w"," ","Z","e","a","l","a","n","d">>, <<"I","n","d","i","a">>}
LocationTexts == {<<>>, <<"P","u","n","e">>, <<"R","e","m","o","t","e",","," ","E","U">>}

\* one call of _prioritize_jobs_by_relevance_and_location
Rank(jobs, user_country) ==
    /\ last' = [Did("rank", NoProfile, "", jobs,
                    Some(_prioritize_jobs_by_relevance_and_location(jobs, user_country)), TRUE)
                  EXCEPT !.args = [user_country |-> user_country]]
    /\ UNCHANGED <<now, cache, stats, user_sessions, env, gathering, lock, threads, set_keys>>

\* one call of _get_location_priority_score
LocationPriority(job_location, job_country, user_country, is_remote) ==
    /\ last' = [Did("location_priority", NoProfile, "", <<>>, None, TRUE)
                  EXCEPT !.args = [job_location |-> job_location, job_country |-> job_country,
                                   user_country |-> user_country, is_remote |-> is_remote,
                                   score |-> _get_location_priority_score(job_location, job_country,
                                                                          user_country, is_remote)]]
    /\ UNCHANGED <<now, cache, stats, user_sessions, env, gathering, lock, threads, set_keys>>

InitRank ==
    /\ now = 0
    /\ cache = EmptyDict
    /\ stats = ZeroStats
    /\ user_sessions = EmptyDict
    /\ env = FullEnv
    /\ lock = FreeLocks
    /\ threads = IdleThreads
    /\ gathering = NotGathering
    /\ set_keys = {}
    /\ last = InitLast

\* one of the two functions is called once, with any arguments
NextRank ==
    \/ /\ last.op = "init"
       /\ \E n \in 1..MaxRanked : \E f \in [1..n -> RankJobs] :
             \E user_country \in RankUserCountries : Rank(RankInput(f), user_country)
    \/ /\ last.op = "init"
       /\ \E job_location \in LocationTexts : \E job_country \in LocationCountries :
             \E user_country \in LocationCountries : \E is_remote \in BOOLEAN :
                LocationPriority(job_location, job_country, user_country, is_remote)

SpecRank == InitRank /\ [][NextRank]_vars

(* C13: location dominance.  For a candidate with a known country, if      *)
(* posting A is in that country, posting B in another, and A and B have    *)
(* the same title, skills and experience scores, then the combined score   *)
(* of A is strictly greater than that of B and A is ranked before B,       *)
(* whether or not B is remote.                                             *)
C13_LocationDominance ==
    (last.op = "rank" /\ last.args.user_country # <<>>) =>
        \A i, j \in 1..Len(last.res.jobs) :
            LET A == last.res.jobs[i]
                B == last.res.jobs[j]
            IN  (/\ A.country = last.args.user_country
                 /\ B.country # last.args.user_country
                 /\ A.job_title_score = B.job_title_score
                 /\ A.skills_match_score = B.skills_match_score
                 /\ A.experience_match_score = B.experience_match_score)
                => (A.combined_score > B.combined_score /\ i < j)

\* a posting in the candidate's country was moved before a remote posting
\* of another country with the same scores
C13_Witness ==
    /\ last.op = "rank" /\ last.args.user_country # <<>>
    /\ Len(last.res.jobs) = 2
    /\ last.res.jobs[1].id = 2
    /\ last.res.jobs[1].country = last.args.user_country
    /\ ~last.res.jobs[1].remote
    /\ last.res.jobs[2].country # last.args.user_country
    /\ last.res.jobs[2].remote
    /\ last.res.jobs[1].job_title_score = 100
    /\ last.res.jobs[2].job_title_score = 100
    /\ last.res.jobs[1].skills_match_score = last.res.jobs[2].skills_match_score
    /\ last.res.jobs[1].experience_match_score = last.res.jobs[2].experience_match_score

(* C14: _prioritize_jobs_by_relevance_and_location returns a permutation   *)
(* of its input, ordered non-increasingly by the tuple (combined_score,    *)
(* location_priority, job_title_score, skills_match_score,                 *)
(* experience_match_score), postings with equal tuples in input order; the *)
(* order is therefore the same for every run on the same input.            *)
C14_StableRanking ==
    last.op = "rank" =>
        LET res == last.res.jobs
        IN  /\ Len(res) = Len(last.jobs)
            /\ {res[k].id : k \in 1..Len(res)} = 1..Len(last.jobs)
            /\ \A k \in 1..Len(res) :
                  /\ res[k].location = last.jobs[res[k].id].location
                  /\ res[k].country = last.jobs[res[k].id].country
                  /\ res[k].remote = last.jobs[res[k].id].remote
                  /\ res[k].job_title_score = last.jobs[res[k].id].job_title_score
            /\ \A k \in 1..(Len(res) - 1) :
                  /\ ~TupleLess(RankKey(res[k]), RankKey(res[k + 1]))
                  /\ RankKey(res[k]) = RankKey(res[k + 1]) => res[k].id < res[k + 1].id

\* two postings of different countries with equal tuples were ranked and
\* kept their input order
C14_Witness ==
    /\ last.op = "rank"
    /\ Len(last.res.jobs) = 2
    /\ RankKey(last.res.jobs[1]) = RankKey(last.res.jobs[2])
    /\ last.res.jobs[1].country # last.res.jobs[2].country
    /\ last.res.jobs[1].id = 1

(* C15: the combined score of each posting is computed by one of three     *)
(* formulas, chosen in this order: the posting's country is the            *)
(* (non-empty) country of the candidate: location*0.5 + title*0.2 +        *)
(* skills*0.2 + experience*0.1 + 40; otherwise the posting is remote:      *)
(* location*0.4 + title*0.25 + skills*0.25 + experience*0.1 + 20;          *)
(* otherwise location*0.25 + title*0.35 + skills*0.25 + experience*0.15.   *)
(* (Scores in hundredths.)                                                 *)
C15_CombinedFormula ==
    last.op = "rank" =>
        \A k \in 1..Len(last.res.jobs) :
            LET job == last.res.jobs[k]
                l == job.location_priority
                t == job.job_title_score
                s == job.skills_match_score
                x == job.experience_match_score
            IN  job.combined_score =
                    IF last.args.user_country # <<>> /\ job.country = last.args.user_country
                    THEN 50 * l + 20 * t + 20 * s + 10 * x + 4000
                    ELSE IF job.remote \/ Contains(lower(job.location), <<"r","e","m","o","t","e">>)
                    THEN 40 * l + 25 * t + 25 * s + 10 * x + 2000
                    ELSE 25 * l + 35 * t + 25 * s + 15 * x

\* a remote posting in the candidate's country got the score of the
\* formula of the candidate's country
C15_Witness ==
    /\ last.op = "rank" /\ last.args.user_country # <<>>
    /\ Len(last.res.jobs) = 1
    /\ last.res.jobs[1].remote
    /\ last.res.jobs[1].country = last.args.user_country
    /\ last.res.jobs[1].job_title_score = 100
    /\ last.res.jobs[1].skills_match_score = 0
    /\ last.res.jobs[1].combined_score = 120 * 50 + 100 * 20 + 60 * 10 + 4000

\* the tiers of C16 for one set of tech-hub countries
ClaimedLocationPriority(job_location, job_country, user_country, is_remote, hubs) ==
    IF user_country # <<>> /\ job_country = user_country THEN {120}
    ELSE IF RemoteJob(is_remote, job_location) THEN {100}
    ELSE IF user_country = <<>>
    THEN IF job_country \in hubs THEN {75} ELSE 0..74
    ELSE IF {user_country, job_country} \subseteq {<<"G","e","r","m","a","n","y">>, <<"A","u","s","t","r","i","a">>, <<"S","w","i","t","z","e","r","l","a","n","d">>, <<"N","e","t","h","e","r","l","a","n","d","s">>, <<"B","e","l","g","i","u","m">>}
    THEN {85, 90}
    ELSE IF {user_country, job_country} \subseteq {<<"S","w","e","d","e","n">>, <<"N","o","r","w","a","y">>, <<"D","e","n","m","a","r","k">>, <<"F","i","n","l","a","n","d">>}
    THEN {90}
    ELSE IF {user_country, job_country} \subseteq priority_european_countries THEN {85}
    ELSE IF {user_country, job_country} \subseteq english_speaking THEN {85}
    ELSE IF job_country \in hubs THEN {75}
    ELSE IF job_country \in english_speaking THEN {70}
    ELSE {50}

(* C16 as claimed: _get_location_priority_score returns a value in 0..120  *)
(* by the first tier that matches: with a known candidate country, 120 for *)
(* the candidate's country, else 100 for a remote posting, else 85-90 for  *)
(* the same regional cluster, else 75 for a tech-hub country, else 70 for  *)
(* another English-speaking country, else 50; with an unknown candidate    *)
(* country, 100 for a remote posting, 75 for a tech-hub country and less   *)
(* than 75 otherwise.                                                      *)
C16_LocationTiers ==
    last.op = "location_priority" =>
        /\ last.args.score \in 0..120
        /\ last.args.score \in ClaimedLocationPriority(last.args.job_location, last.args.job_country,
                                                     last.args.user_country, last.args.is_remote,
                                                     tech_hubs)

----------------------------------------------------------------------------
(* _extract_country_from_location on its own                               *)

\* words of location texts: aliases of countries, words that hold an alias
\* inside them, and words that hold none
LocationWords ==
    {<<"S","w","e","d","e","n">>, <<"F","i","n","l","a","n","d">>, <<"u","s","i","n","g">>, <<"N","L">>, <<"U","t","r","e","c","h","t">>, <<"B","e","r","l","i","n">>, <<"O","s","l","o">>, <<"U","S">>,
     <<"I","n","d","i","a">>, <<"P","u","n","e">>, <<"R","e","m","o","t","e">>, <<"T","h","e"," ","H","a","g","u","e">>}

\* what stands between two words of a location text
LocationSeparators == {<<","," ">>, <<" ">>, <<",">>}

\* the location texts: nothing, a word, two words
LocationInputs ==
    {<<>>, <<" "," ">>} \cup LocationWords
    \cup {w[1] \o w[2] \o w[3] : w \in LocationWords \X LocationSeparators \X LocationWords}

\* one call of _extract_country_from_location
ExtractCountry(location) ==
    /\ last' = [Did("extract_country", NoProfile, "", <<>>, None, TRUE)
                  EXCEPT !.args = [location |-> location,
                                   country |-> _extract_country_from_location(location)]]
    /\ UNCHANGED <<now, cache, stats, user_sessions, env, gathering, lock, threads, set_keys>>

InitCountry ==
    /\ now = 0
    /\ cache = EmptyDict
    /\ stats = ZeroStats
    /\ user_sessions = EmptyDict
    /\ env = FullEnv
    /\ lock = FreeLocks
    /\ threads = IdleThreads
    /\ gathering = NotGathering
    /\ set_keys = {}
    /\ last = InitLast

\* the function is called once, with any location text
NextCountry ==
    /\ last.op = "init"
    /\ \E location \in LocationInputs : ExtractCountry(location)

SpecCountry == InitCountry /\ [][NextCountry]_vars

\* the aliases of a country: the keys of country_mapping that map to it
Aliases(country) ==
    {country_mapping[i][1] : i \in {k \in 1..Len(country_mapping) : country_mapping[k][2] = country}}

(* C17 as claimed: _extract_country_from_location matches aliases at word  *)
(* boundaries only: the country returned is one with an alias that occurs  *)
(* in the text as a whole word or phrase, and an alias that occurs only    *)
(* inside a longer word never determines the result; when no alias         *)
(* matches, or the text is empty, the result is the empty string.          *)
C17_WordBoundaries ==
    last.op = "extract_country" =>
        \/ last.args.country = <<>>
        \/ \E alias \in Aliases(last.args.country) :
              SearchWord(lower(last.args.location), alias)

----------------------------------------------------------------------------
(* UserSessionCache driven directly                                        *)

\* user_id arguments of the operations of UserSessionCache
SessionUsers == {"u1", "u2"}

\* jobs arguments of set_user_jobs
SessionPayloads == {<<PostA>>, <<PostB, PostA>>}

\* The users whose session was refreshed and not stored again since: kept
\* in the record of the operations of UserSessionCache.
RefreshedUsers ==
    IF last.op \in {"user_get", "user_set", "user_refresh", "user_invalidate"}
    THEN last.args.refreshed ELSE {}

\* The record of an operation of UserSessionCache; pending says that the
\* user was refreshed and not stored again before the operation.
SessionDid(op, user_id, jobs, res, ok, refreshed) ==
    [Did(op, NoProfile, user_id, jobs, res, ok)
        EXCEPT !.args = [refreshed |-> refreshed, pending |-> user_id \in RefreshedUsers]]

\* user_session_cache.get_user_jobs(user_id) at time now; _is_session_expired
\* reads the clock at t2
UserGet(user_id, t2) ==
    /\ LET r == get_user_jobs_at(user_sessions, user_id, now, t2)
       IN  /\ user_sessions' = r.sessions
           /\ last' = SessionDid("user_get", user_id, <<>>, r.res, r.res.some, RefreshedUsers)
    /\ now' = t2
    /\ UNCHANGED <<cache, stats, env, gathering, lock, threads, set_keys>>

\* user_session_cache.set_user_jobs(user_id, jobs, profile_data)
UserSet(user_id, jobs, profile_data) ==
    /\ user_sessions' = set_user_jobs_at(user_sessions, user_id, jobs, profile_data, now)
    /\ last' = [SessionDid("user_set", user_id, jobs, None, TRUE, RefreshedUsers \ {user_id})
                  EXCEPT !.p = profile_data]
    /\ UNCHANGED <<now, cache, stats, env, gathering, lock, threads, set_keys>>

\* user_session_cache.refresh_user_jobs(user_id)
UserRefresh(user_id) ==
    /\ user_sessions' = refresh_user_jobs_at(user_sessions, user_id)
    /\ last' = SessionDid("user_refresh", user_id, <<>>, None, TRUE, RefreshedUsers \cup {user_id})
    /\ UNCHANGED <<now, cache, stats, env, gathering, lock, threads, set_keys>>

\* user_session_cache.invalidate_user(user_id)
UserInvalidate(user_id) ==
    /\ LET r == invalidate_user_at(user_sessions, user_id)
       IN  /\ user_sessions' = r.sessions
           /\ last' = SessionDid("user_invalidate", user_id, <<>>, None, r.res, RefreshedUsers)
    /\ UNCHANGED <<now, cache, stats, env, gathering, lock, threads, set_keys>>

\* The profile cache beside the user sessions: empty, or as it is after one
\* JobCache.set and three lookups.
SessionJobCaches ==
    {[cache |-> EmptyDict, stats |-> ZeroStats],
     [cache |-> JobCache_set_at(EmptyDict, ZeroStats, KeyTable[ProfileB], <<PostA>>,
                                DefaultTtlMinutes, 0).cache,
      stats |-> [hits |-> 1, misses |-> 2, sets |-> 1, evictions |-> 0]]}

InitSession ==
    /\ now = 0
    /\ \E jc \in SessionJobCaches : cache = jc.cache /\ stats = jc.stats
    /\ user_sessions = EmptyDict
    /\ env = FullEnv
    /\ lock = FreeLocks
    /\ threads = IdleThreads
    /\ gathering = NotGathering
    /\ set_keys = DOMAIN cache
    /\ last = InitLast

NextSession ==
    \/ \E user_id \in SessionUsers : \E t2 \in LaterReads(now) : UserGet(user_id, t2)
    \/ \E user_id \in SessionUsers : \E jobs \in SessionPayloads : UserSet(user_id, jobs, ProfileB)
    \/ \E user_id \in SessionUsers : UserRefresh(user_id)
    \/ \E user_id \in SessionUsers : UserInvalidate(user_id)
    \/ Advance

\* UserSessionCache driven directly
SpecSession == InitSession /\ [][NextSession]_vars

\* a get_user_jobs for a user refreshed and not stored again since misses
RefreshedMisses ==
    (last.op = "user_get" /\ last.args.pending) => last.res = None

\* this step is a refresh_user_jobs
RefreshStep == OpStep /\ last'.op = "user_refresh"

(* C18: refresh_user_jobs(u) makes every get_user_jobs(u) miss (return     *)
(* None) until set_user_jobs(u) is called again, and it leaves the         *)
(* counters hits, misses, sets and evictions of JobCache, the entries of   *)
(* the profile cache and the sessions of every other user as they are.     *)
C18_RefreshForcesMiss ==
    /\ []RefreshedMisses
    /\ [][RefreshStep =>
            /\ last'.user \notin DOMAIN user_sessions'
            /\ stats' = stats
            /\ cache' = cache
            /\ \A u \in SessionUsers \ {last'.user} :
                  /\ u \in DOMAIN user_sessions' <=> u \in DOMAIN user_sessions
                  /\ u \in DOMAIN user_sessions => user_sessions'[u] = user_sessions[u]
       ]_vars

\* after a refresh of u1 the next get_user_jobs of u1 missed, and the
\* session of u2, the profile entry and the counters are still there
C18_Witness ==
    /\ last.op = "user_get" /\ last.user = "u1"
    /\ last.args.pending
    /\ last.res = None
    /\ now = 0
    /\ "u2" \in DOMAIN user_sessions
    /\ stats.sets = 1 /\ cache # EmptyDict

----------------------------------------------------------------------------
(* The forced refresh of a user                                            *)

(* C19 as claimed: after the force-refresh operation for user u (POST      *)
(* /api/cache/refresh/{user_id}), the next call of                         *)
(* get_personalized_job_recommendations for u with use_cache=True fetches  *)
(* from the job sources: it returns no payload cached before the refresh,  *)
(* in either cache tier.                                                   *)
C19_RefreshFetchesFresh ==
    [][(/\ RequestStep
        /\ last.op = "refresh_user"
        /\ last'.op = "personalized"
        /\ last'.user = last.user
        /\ last'.args.use_cache)
       => last'.calls # <<>>]_vars


----------------------------------------------------------------------------
(* The locks of the two caches (job_cache.py, main.py).  Every function    *)
(* that touches JobCache.cache or UserSessionCache.user_sessions is a      *)
(* list of statements: entering a `with self.lock` block, a statement that *)
(* reads or changes a map, leaving the block.  A thread runs one function  *)
(* at a time, a statement a step; threads interleave between statements.   *)

Acquire(c) == [do |-> "acquire", on |-> c]
Release(c) == [do |-> "release", on |-> c]
\* a statement that reads, iterates or changes the map of cache c
Touch(what, c) == [do |-> what, on |-> c]

\* a method whose whole body is one `with self.lock` block
Locked(what, c) == <<Acquire(c), Touch(what, c), Release(c)>>

\* DELETE /api/cache/clear-all: job_cache.clear_all(), a locked method, then
\* user_session_cache.user_sessions.clear()
clear_all_job_cache ==
    Locked("clear", "job_cache") \o <<Touch("clear", "user_session_cache")>>

\* get_cache_stats: job_cache.get_stats(), a locked method, then
\* len(user_sessions), then the
\* sum over user_sessions.values(): the iterator is made in one statement
\* and advanced in a later one
get_cache_stats ==
    Locked("get_stats", "job_cache")
      \o <<Touch("len", "user_session_cache"),
           Touch("values", "user_session_cache"),
           Touch("next", "user_session_cache")>>

\* the statements of each function the request handlers call
Program ==
    ("JobCache.get" :> Locked("get", "job_cache"))
 @@ ("JobCache.set" :> Locked("set", "job_cache"))
 @@ ("JobCache.invalidate" :> Locked("invalidate", "job_cache"))
 @@ ("UserSessionCache.get_user_jobs" :> Locked("get_user_jobs", "user_session_cache"))
 @@ ("UserSessionCache.set_user_jobs" :> Locked("set_user_jobs", "user_session_cache"))
 @@ ("UserSessionCache.invalidate_user" :> Locked("invalidate_user", "user_session_cache"))
 @@ ("UserSessionCache.refresh_user_jobs" :> Locked("refresh_user_jobs", "user_session_cache"))
 @@ ("clear_all_job_cache" :> clear_all_job_cache)
 @@ ("get_cache_stats" :> get_cache_stats)

Functions == DOMAIN Program

\* the users of the concurrent requests
LockUsers == {"u1"}

Running(t) == threads[t].op # "idle"

\* the statement thread t executes next
AtStatement(t) ==
    Running(t) /\ threads[t].pc <= Len(Program[threads[t].op])

Statement(t) == Program[threads[t].op][threads[t].pc]

At(t, what, c) == AtStatement(t) /\ Statement(t) = Touch(what, c)

Goes(t) == [threads EXCEPT ![t].pc = @ + 1]

GoesWith(t, res) == [threads EXCEPT ![t].pc = @ + 1, ![t].res = res]

\* the threads that run function op
RunningOp(op) == {t \in Threads : threads[t].op = op}

\* What the functions return is left out, but for the iteration of
\* get_cache_stats.  A request thread calls one of the functions; the calls of JobCache.get
\* and JobCache.set are bounded
Call(t, op, user_id) ==
    /\ ~Running(t)
    /\ op = "JobCache.get" =>
          stats.hits + stats.misses + Cardinality(RunningOp(op)) < MaxGets
    /\ op = "JobCache.set" =>
          stats.sets + Cardinality(RunningOp(op)) < MaxSets
    /\ threads' = [threads EXCEPT ![t] = [op |-> op, pc |-> 1, user |-> user_id,
                                          seen |-> 0, res |-> "none"]]
    /\ UNCHANGED <<now, cache, stats, user_sessions, env, gathering, set_keys, last, lock>>

\* `with self.lock:` is entered: the thread waits until the lock is free
AcquireLock(t) ==
    /\ AtStatement(t)
    /\ Statement(t).do = "acquire"
    /\ lock[Statement(t).on] = Free
    /\ lock' = [lock EXCEPT ![Statement(t).on] = t]
    /\ threads' = Goes(t)
    /\ UNCHANGED <<now, cache, stats, user_sessions, env, gathering, set_keys, last>>

\* the `with self.lock:` block is left
ReleaseLock(t) ==
    /\ AtStatement(t)
    /\ Statement(t).do = "release"
    /\ lock' = [lock EXCEPT ![Statement(t).on] = Free]
    /\ threads' = Goes(t)
    /\ UNCHANGED <<now, cache, stats, user_sessions, env, gathering, set_keys, last>>

\* the function returns
Return(t) ==
    /\ Running(t)
    /\ ~AtStatement(t)
    /\ threads' = [threads EXCEPT ![t] = Idle]
    /\ UNCHANGED <<now, cache, stats, user_sessions, env, gathering, set_keys, last, lock>>

\* the body of JobCache.get
JobGet(t, t2) ==
    /\ At(t, "get", "job_cache")
    /\ LET r == JobCache_get_at(cache, stats, KeyTable[ProfileB], now, t2)
       IN  /\ cache' = r.cache
           /\ stats' = r.stats
           /\ threads' = Goes(t)
    /\ now' = t2
    /\ UNCHANGED <<user_sessions, env, gathering, set_keys, last, lock>>

\* the body of JobCache.set
JobSet(t) ==
    /\ At(t, "set", "job_cache")
    /\ LET r == JobCache_set_at(cache, stats, KeyTable[ProfileB], <<PostA>>, 0, now)
       IN  /\ cache' = r.cache
           /\ stats' = r.stats
    /\ set_keys' = set_keys \cup {KeyTable[ProfileB]}
    /\ threads' = Goes(t)
    /\ UNCHANGED <<now, user_sessions, env, gathering, last, lock>>

\* the body of JobCache.invalidate
JobInvalidate(t) ==
    /\ At(t, "invalidate", "job_cache")
    /\ cache' = JobCache_invalidate_at(cache, KeyTable[ProfileB]).cache
    /\ threads' = Goes(t)
    /\ UNCHANGED <<now, stats, user_sessions, env, gathering, set_keys, last, lock>>

\* the body of JobCache.clear_all
JobClear(t) ==
    /\ At(t, "clear", "job_cache")
    /\ cache' = EmptyDict
    /\ threads' = Goes(t)
    /\ UNCHANGED <<now, stats, user_sessions, env, gathering, set_keys, last, lock>>

\* the body of JobCache.get_stats: self.stats and len(self.cache) are read
JobStats(t) ==
    /\ At(t, "get_stats", "job_cache")
    /\ threads' = Goes(t)
    /\ UNCHANGED <<now, cache, stats, user_sessions, env, gathering, set_keys, last, lock>>

\* the body of UserSessionCache.get_user_jobs
SessionGet(t, t2) ==
    /\ At(t, "get_user_jobs", "user_session_cache")
    /\ LET r == get_user_jobs_at(user_sessions, threads[t].user, now, t2)
       IN  /\ user_sessions' = r.sessions
           /\ threads' = Goes(t)
    /\ now' = t2
    /\ UNCHANGED <<cache, stats, env, gathering, set_keys, last, lock>>

\* the body of UserSessionCache.set_user_jobs
SessionSet(t) ==
    /\ At(t, "set_user_jobs", "user_session_cache")
    /\ user_sessions' = set_user_jobs_at(user_sessions, threads[t].user, <<PostA>>, ProfileB, now)
    /\ threads' = Goes(t)
    /\ UNCHANGED <<now, cache, stats, env, gathering, set_keys, last, lock>>

\* the body of UserSessionCache.invalidate_user
SessionInvalidate(t) ==
    /\ At(t, "invalidate_user", "user_session_cache")
    /\ user_sessions' = invalidate_user_at(user_sessions, threads[t].user).sessions
    /\ threads' = Goes(t)
    /\ UNCHANGED <<now, cache, stats, env, gathering, set_keys, last, lock>>

\* the body of UserSessionCache.refresh_user_jobs
SessionRefresh(t) ==
    /\ At(t, "refresh_user_jobs", "user_session_cache")
    /\ user_sessions' = refresh_user_jobs_at(user_sessions, threads[t].user)
    /\ threads' = Goes(t)
    /\ UNCHANGED <<now, cache, stats, env, gathering, set_keys, last, lock>>

\* user_session_cache.user_sessions.clear()
SessionsClear(t) ==
    /\ At(t, "clear", "user_session_cache")
    /\ user_sessions' = EmptyDict
    /\ threads' = Goes(t)
    /\ UNCHANGED <<now, cache, stats, env, gathering, set_keys, last, lock>>

\* len(user_session_cache.user_sessions)
SessionsLen(t) ==
    /\ At(t, "len", "user_session_cache")
    /\ threads' = Goes(t)
    /\ UNCHANGED <<now, cache, stats, user_sessions, env, gathering, set_keys, last, lock>>

\* user_session_cache.user_sessions.values(): the iterator keeps the size
\* of the dict
SessionsValues(t) ==
    /\ At(t, "values", "user_session_cache")
    /\ threads' = [Goes(t) EXCEPT ![t].seen = Cardinality(DOMAIN user_sessions)]
    /\ UNCHANGED <<now, cache, stats, user_sessions, env, gathering, set_keys, last, lock>>

\* the iterator is advanced: a dict whose size changed since the iterator
\* was made raises RuntimeError
SessionsNext(t) ==
    /\ At(t, "next", "user_session_cache")
    /\ threads' = GoesWith(t, IF Cardinality(DOMAIN user_sessions) # threads[t].seen
                              THEN "RuntimeError" ELSE "summed")
    /\ UNCHANGED <<now, cache, stats, user_sessions, env, gathering, set_keys, last, lock>>

InitLock ==
    /\ now = 0
    /\ cache = EmptyDict
    /\ stats = ZeroStats
    /\ user_sessions = EmptyDict
    /\ env = FullEnv
    /\ lock = FreeLocks
    /\ threads = IdleThreads
    /\ gathering = NotGathering
    /\ set_keys = {}
    /\ last = InitLast

NextLock ==
    \/ \E t \in Threads : \E op \in Functions : \E user_id \in LockUsers : Call(t, op, user_id)
    \/ \E t \in Threads : AcquireLock(t)
    \/ \E t \in Threads : ReleaseLock(t)
    \/ \E t \in Threads : Return(t)
    \/ \E t \in Threads : \E t2 \in LaterReads(now) : JobGet(t, t2)
    \/ \E t \in Threads : JobSet(t)
    \/ \E t \in Threads : JobInvalidate(t)
    \/ \E t \in Threads : JobClear(t)
    \/ \E t \in Threads : JobStats(t)
    \/ \E t \in Threads : \E t2 \in LaterReads(now) : SessionGet(t, t2)
    \/ \E t \in Threads : SessionSet(t)
    \/ \E t \in Threads : SessionInvalidate(t)
    \/ \E t \in Threads : SessionRefresh(t)
    \/ \E t \in Threads : SessionsClear(t)
    \/ \E t \in Threads : SessionsLen(t)
    \/ \E t \in Threads : SessionsValues(t)
    \/ \E t \in Threads : SessionsNext(t)
    \/ Advance

\* concurrent requests on the two caches
SpecLock == InitLock /\ [][NextLock]_vars

\* the statements that change, read the size of or iterate a map
TouchesMap(t) == AtStatement(t) /\ Statement(t).do \notin {"acquire", "release"}

\* C20: every statement that changes JobCache.cache or
\* UserSessionCache.user_sessions (store, eviction, invalidate, refresh,
\* clear) and every statement that reads them for the statistics is executed
\* by a thread that holds the lock of that cache.
C20_MapsUnderLock ==
    \A t \in Threads : TouchesMap(t) => lock[Statement(t).on] = t


----------------------------------------------------------------------------
(* The two caches driven directly, side by side                            *)

\* the profiles, payload and time to live of the stores
InvalidateProfiles == {ProfileA, ProfileB}

InitInvalidate ==
    /\ now = 0
    /\ cache = EmptyDict
    /\ stats = ZeroStats
    /\ user_sessions = EmptyDict
    /\ env = FullEnv
    /\ lock = FreeLocks
    /\ threads = IdleThreads
    /\ gathering = NotGathering
    /\ set_keys = {}
    /\ last = InitLast

NextInvalidate ==
    \/ \E p \in InvalidateProfiles : \E t2 \in LaterReads(now) : CacheGet(p, t2)
    \/ \E p \in InvalidateProfiles : CacheSet(p, <<PostB, PostA>>, 60)
    \/ \E p \in InvalidateProfiles : CacheInvalidate(p)
    \/ CacheClearAll
    \/ \E user_id \in SessionUsers : \E t2 \in LaterReads(now) : UserGet(user_id, t2)
    \/ \E user_id \in SessionUsers : UserSet(user_id, <<PostA>>, ProfileB)
    \/ \E user_id \in SessionUsers : UserInvalidate(user_id)
    \/ Advance

\* JobCache and UserSessionCache driven directly
SpecInvalidate == InitInvalidate /\ [][NextInvalidate]_vars

(* C26: JobCache.invalidate(P) and UserSessionCache.invalidate_user(u)     *)
(* return True exactly when an entry for the key existed, and then the     *)
(* entry is removed; otherwise they return False and the state is          *)
(* unchanged.  Either way the entries of the other keys and the counters   *)
(* hits, misses, sets and evictions stay as they are, clear_all leaves the *)
(* counters as they are too, and the lookup of the invalidated key that    *)
(* follows is a miss.                                                      *)
C26_InvalidateFrame ==
    [][/\ (OpStep /\ last'.op = "invalidate") =>
            LET k == KeyTable[last'.p]
            IN  /\ last'.ok = (k \in DOMAIN cache)
                /\ cache' = DelKeys(cache, {k})
                /\ ~last'.ok => cache' = cache
                /\ stats' = stats
                /\ user_sessions' = user_sessions
       /\ (OpStep /\ last'.op = "user_invalidate") =>
            /\ last'.ok = (last'.user \in DOMAIN user_sessions)
            /\ user_sessions' = DelKeys(user_sessions, {last'.user})
            /\ ~last'.ok => user_sessions' = user_sessions
            /\ stats' = stats
            /\ cache' = cache
       /\ (OpStep /\ last'.op = "clear_all") =>
            /\ cache' = EmptyDict
            /\ stats' = stats
       /\ (GetStep /\ last.op = "invalidate" /\ KeyTable[last'.p] = KeyTable[last.p]) =>
            /\ last'.res = None
            /\ stats'.misses = stats.misses + 1
            /\ stats'.hits = stats.hits
       /\ (OpStep /\ last'.op = "user_get" /\ last.op = "user_invalidate"
                  /\ last'.user = last.user) =>
            last'.res = None
    ]_vars

\* invalidate_user removed the session of a user and returned True, beside
\* the session of another user and a stored profile entry
C26_Witness ==
    /\ last.op = "user_invalidate" /\ last.ok
    /\ last.user \notin DOMAIN user_sessions
    /\ user_sessions # EmptyDict
    /\ cache # EmptyDict


----------------------------------------------------------------------------
(* The counters of JobCache                                                *)

\* this step is a JobCache.set
SetStep == OpStep /\ last'.op = "set"

(* C27: over any sequence of get, set, invalidate and clear_all the        *)
(* counters hits, misses, sets and evictions never decrease; hits + misses *)
(* counts the get calls (each get adds exactly one, nothing else adds      *)
(* any); sets counts the set calls; and evictions plus the number of       *)
(* stored entries is at most sets.                                         *)
C27_Counters ==
    /\ [](stats.evictions + Cardinality(DOMAIN cache) <= stats.sets)
    /\ [][/\ stats'.hits >= stats.hits
          /\ stats'.misses >= stats.misses
          /\ stats'.sets >= stats.sets
          /\ stats'.evictions >= stats.evictions
          /\ stats'.hits + stats'.misses =
                stats.hits + stats.misses + (IF GetStep THEN 1 ELSE 0)
          /\ stats'.sets = stats.sets + (IF SetStep THEN 1 ELSE 0)
       ]_vars

\* every counter has moved, an entry is stored and the bound on the
\* evictions is met
C27_Witness ==
    /\ stats.hits > 0 /\ stats.misses > 0 /\ stats.evictions > 0
    /\ cache # EmptyDict
    /\ stats.evictions + Cardinality(DOMAIN cache) = stats.sets
    /\ last.op = "get"


----------------------------------------------------------------------------
(* The refresh count of the sessions                                       *)

(* C28: in every reachable state of UserSessionCache every stored session  *)
(* has refresh_count = 0: set_user_jobs copies the count of the session it *)
(* overwrites (0 when there is none) and refresh_user_jobs deletes the     *)
(* session whose count it has just incremented.                            *)
C28_RefreshCountZero ==
    \A u \in DOMAIN user_sessions : user_sessions[u].refresh_count = 0

\* a session stored for a user who was refreshed before, beside the session
\* of the other user
C28_Witness ==
    /\ last.op = "user_set"
    /\ last.args.pending
    /\ DOMAIN user_sessions = SessionUsers


----------------------------------------------------------------------------
(* The user sessions and the profile of the request                        *)

\* this step is a call of get_personalized_job_recommendations for a user
\* that returns from the session of the user: the profile cache is not
\* looked up and no source is called
SessionServed ==
    /\ RequestStep
    /\ last'.op = "personalized"
    /\ last'.user # ""
    /\ last'.args.use_cache
    /\ last'.user \in DOMAIN user_sessions
    /\ stats' = stats
    /\ last'.calls = <<>>
    /\ last'.res = Some(user_sessions[last'.user].jobs)

(* C29 as claimed: every list get_personalized_job_recommendations returns *)
(* for profile P and user u was produced for a profile with the cache      *)
(* fingerprint of P: a live session stored under u for another profile is  *)
(* never returned for a request that carries P.                            *)
C29_SessionOfSameProfile ==
    [][SessionServed =>
         KeyTable[user_sessions[last'.user].profile] = KeyTable[last'.p]]_vars


----------------------------------------------------------------------------
(* The candidate's country against the relevance of the postings           *)

(* C30 as claimed: with a known candidate country, every posting of that   *)
(* country has a strictly greater combined score than, and is ranked       *)
(* before, every posting of another country, remote or not, whatever the   *)
(* title, skills and experience scores of the two are.                     *)
C30_StrictCountryDominance ==
    (last.op = "rank" /\ last.args.user_country # <<>>) =>
        \A i, j \in 1..Len(last.res.jobs) :
            (/\ last.res.jobs[i].country = last.args.user_country
             /\ last.res.jobs[j].country # last.args.user_country)
            => (/\ last.res.jobs[i].combined_score > last.res.jobs[j].combined_score
                /\ i < j)


----------------------------------------------------------------------------
(* _prioritize_jobs_by_location on its own                                 *)

MaxPlaced == 3  \* the longest list of postings given to _prioritize_jobs_by_location

\* location and country of the postings
Places ==
    {<<<<"B","r","e","d","a">>, <<"N","e","t","h","e","r","l","a","n","d","s">>>>, <<<<"H","e","l","s","i","n","k","i",","," ","F","i","n","l","a","n","d">>, <<"F","i","n","l","a","n","d">>>>,
     <<<<"B","e","r","l","i","n">>, <<"G","e","r","m","a","n","y">>>>, <<<<"P","u","n","e">>, <<"I","n","d","i","a">>>>, <<<<"R","e","m","o","t","e">>, <<"G","l","o","b","a","l">>>>}

\* the postings of a list, numbered in input order
PlacedJobs(f) ==
    [i \in DOMAIN f |-> [id |-> i, location |-> f[i][1], country |-> f[i][2]]]

PlacedUserCountries == {<<>>, <<"N","e","t","h","e","r","l","a","n","d","s">>, <<"G","e","r","m","a","n","y">>}

\* one call of _prioritize_jobs_by_location
PrioritizeByLocation(jobs, user_country) ==
    /\ last' = [Did("prioritize_by_location", NoProfile, "", jobs,
                    Some(_prioritize_jobs_by_location(jobs, <<>>, user_country)), TRUE)
                  EXCEPT !.args = [user_country |-> user_country]]
    /\ UNCHANGED <<now, cache, stats, user_sessions, env, gathering, lock, threads, set_keys>>

InitPlaced ==
    /\ now = 0
    /\ cache = EmptyDict
    /\ stats = ZeroStats
    /\ user_sessions = EmptyDict
    /\ env = FullEnv
    /\ lock = FreeLocks
    /\ threads = IdleThreads
    /\ gathering = NotGathering
    /\ set_keys = {}
    /\ last = InitLast

\* the function is called once, with any list and any country of the user
NextPlaced ==
    /\ last.op = "init"
    /\ \E n \in 1..MaxPlaced : \E f \in [1..n -> Places] :
          \E user_country \in PlacedUserCountries :
             PrioritizeByLocation(PlacedJobs(f), user_country)

SpecPlaced == InitPlaced /\ [][NextPlaced]_vars

\* the posting is located in the Netherlands, as the test of the
\* repository tells it: 'Netherlands' in its country or in its location
InNetherlands(job) ==
    \/ Contains(job.country, <<"N","e","t","h","e","r","l","a","n","d","s">>)
    \/ Contains(job.location, <<"N","e","t","h","e","r","l","a","n","d","s">>)

\* the posting is located in another European country
InEurope(job) == ~InNetherlands(job) /\ job.country \in european_countries

\* the posting is located elsewhere
Elsewhere(job) == ~InNetherlands(job) /\ ~InEurope(job)

(* C24 as claimed: _prioritize_jobs_by_location returns a permutation of   *)
(* its input.  For a candidate of the Netherlands the postings located in  *)
(* the Netherlands come first, then those located in another European      *)
(* country, then the rest, each group in input order, so that no posting   *)
(* located outside the Netherlands precedes one located in the             *)
(* Netherlands; for a candidate of unknown country the input order is      *)
(* returned as it is.                                                      *)
C24_LocationPartition ==
    last.op = "prioritize_by_location" =>
        /\ IsPermutation(last.jobs, last.res.jobs)
        /\ last.args.user_country = <<"N","e","t","h","e","r","l","a","n","d","s">> =>
              last.res.jobs = SelectSeq(last.jobs, InNetherlands)
                                \o SelectSeq(last.jobs, InEurope)
                                \o SelectSeq(last.jobs, Elsewhere)
        /\ last.args.user_country = <<>> => last.res.jobs = last.jobs


----------------------------------------------------------------------------
(* The search queries of the two recommendation functions on their own     *)

\* job titles of the candidates: the first two match the pattern of
\* line 749, 'QA' is too short for line 739
QueryTitles == {<<"D","a","t","a"," ","E","n","g","i","n","e","e","r">>, <<"D","a","t","a"," ","A","r","c","h","i","t","e","c","t">>, <<"J","a","v","a"," ","D","e","v","e","l","o","p","e","r">>, <<"Q","A">>}

MaxTitles == 2  \* the longest last_two_jobs of the profiles of SpecQueries

QuerySkills ==
    {<<>>, <<<<"C","o","o","k","i","n","g">>>>, <<<<"P","y","t","h","o","n">>>>, <<<<"P","y","t","h","o","n">>, <<"S","Q","L">>, <<"S","p","a","r","k">>>>,
     <<<<"d","a","t","a">>, <<"a","r","c","h","i","t","e","c","t">>>>}

QueryProfiles ==
    {[skills |-> s, experience |-> <<"5","y">>, last_jobs |-> t, location |-> <<>>] :
        s \in QuerySkills, t \in ListsUpTo(QueryTitles, MaxTitles)}

\* the queries the two functions give to search_all_apis for profile p
DeriveQueries(p) ==
    /\ last' = [Did("queries", p, "", <<>>, None, TRUE)
                  EXCEPT !.args = [real |-> Take(RealSearchQueries(p), 3),
                                   personalized |-> Take(PersonalizedSearchTerms(p), 2)]]
    /\ UNCHANGED <<now, cache, stats, user_sessions, env, gathering, lock, threads, set_keys>>

InitQueries ==
    /\ now = 0
    /\ cache = EmptyDict
    /\ stats = ZeroStats
    /\ user_sessions = EmptyDict
    /\ env = FullEnv
    /\ lock = FreeLocks
    /\ threads = IdleThreads
    /\ gathering = NotGathering
    /\ set_keys = {}
    /\ last = InitLast

\* the queries are derived once, for any profile
NextQueries ==
    /\ last.op = "init"
    /\ \E p \in QueryProfiles : DeriveQueries(p)

SpecQueries == InitQueries /\ [][NextQueries]_vars

\* the pattern of the specialist titles (line 749)
Specialist(title) ==
    \E keyword \in {<<"d","a","t","a"," ","e","n","g","i","n","e","e","r">>, <<"d","a","t","a"," ","a","r","c","h","i","t","e","c","t">>, <<"d","a","t","a"," ","p","l","a","t","f","o","r","m">>, <<"d","a","t","a"," ","p","i","p","e","l","i","n","e">>} :
        Contains(lower(title), keyword)

\* the query is a job title of the profile
TitleOf(p, query) == \E i \in 1..Len(p.last_jobs) : strip(p.last_jobs[i]) = query

\* the generic queries of the two functions (lines 776-786 and 1030)
GenericQueries ==
    {<<"D","a","t","a"," ","A","r","c","h","i","t","e","c","t">>, <<"S","o","l","u","t","i","o","n"," ","A","r","c","h","i","t","e","c","t"," ","D","a","t","a">>, <<"D","a","t","a"," ","P","l","a","t","f","o","r","m"," ","A","r","c","h","i","t","e","c","t">>,
     <<"D","a","t","a"," ","E","n","g","i","n","e","e","r">>, <<"S","e","n","i","o","r"," ","D","a","t","a"," ","E","n","g","i","n","e","e","r">>, <<"D","a","t","a"," ","P","i","p","e","l","i","n","e"," ","E","n","g","i","n","e","e","r">>,
     <<"S","o","f","t","w","a","r","e"," ","E","n","g","i","n","e","e","r">>, <<"B","a","c","k","e","n","d"," ","E","n","g","i","n","e","e","r">>, <<"F","u","l","l"," ","S","t","a","c","k"," ","E","n","g","i","n","e","e","r">>,
     <<"S","o","f","t","w","a","r","e"," ","D","e","v","e","l","o","p","e","r">>, <<"E","n","g","i","n","e","e","r">>, <<"D","e","v","e","l","o","p","e","r">>}

\* what C21 says of one list of queries, of which at most most are issued
DerivedAsClaimed(p, queries, most) ==
    /\ Len(queries) <= most
    /\ \A i, j \in 1..Len(queries) : i # j => queries[i] # queries[j]
    /\ \A i, j \in 1..Len(queries) :
          (/\ TitleOf(p, queries[i]) /\ TitleOf(p, queries[j])
           /\ Specialist(queries[i]) /\ ~Specialist(queries[j])) => i < j
    /\ (\E i \in 1..Len(queries) : queries[i] \in GenericQueries /\ ~TitleOf(p, queries[i]))
          => \A i \in 1..Len(queries) : queries[i] \in GenericQueries /\ ~TitleOf(p, queries[i])

(* C21 as claimed: the derivation issues at most 3 queries per             *)
(* aggregation, no query twice (each client is called once for a query),   *)
(* every title that matches the specialist pattern comes before every      *)
(* title that does not, and the generic queries are used only when neither *)
(* a title nor a skill gave a query.                                       *)
C21_QueryDerivation ==
    last.op = "queries" =>
        /\ DerivedAsClaimed(last.p, last.args.real, 3)
        /\ DerivedAsClaimed(last.p, last.args.personalized, 3)


----------------------------------------------------------------------------
(* The apply links of the parsed postings                                  *)

(* C22 as claimed: every posting a parser of a source produces (JSearch,   *)
(* Adzuna, RemoteOK, the Dutch boards and the parsing of the RemoteOK feed *)
(* inside get_real_job_recommendations) has a non-empty applyUrl, also for *)
(* a job whose link the provider left empty.                               *)
C22_ApplyUrlNeverEmpty ==
    last.op \in {"personalized", "real"} =>
        \A i \in 1..Len(last.fetched) : last.fetched[i].applyUrl # ""


----------------------------------------------------------------------------
(* The three sub-scores of a posting (job_services.py)                     *)

\* min(a, b) of two numbers
Least(a, b) == IF a < b THEN a ELSE b

\* Scores of _calculate_job_title_relevance are counted in parts of a
\* point, so that word_matches / len(user_words) * 20 is a whole number for
\* every title of up to six words.
TitleScale == 6

\* any(keyword in text for keyword in keywords)
AnyIn(keywords, text) == \E keyword \in keywords : Contains(text, keyword)

data_engineering_keywords ==
    {<<"d","a","t","a"," ","e","n","g","i","n","e","e","r">>, <<"d","a","t","a"," ","e","n","g","i","n","e","e","r","i","n","g">>, <<"d","a","t","a"," ","p","i","p","e","l","i","n","e">>, <<"e","t","l">>,
     <<"d","a","t","a"," ","a","r","c","h","i","t","e","c","t">>, <<"d","a","t","a"," ","a","r","c","h","i","t","e","c","t","u","r","e">>, <<"b","i","g"," ","d","a","t","a">>, <<"d","a","t","a"," ","p","l","a","t","f","o","r","m">>}
software_engineering_keywords ==
    {<<"s","o","f","t","w","a","r","e"," ","e","n","g","i","n","e","e","r">>, <<"s","o","f","t","w","a","r","e"," ","d","e","v","e","l","o","p","e","r">>, <<"b","a","c","k","e","n","d"," ","e","n","g","i","n","e","e","r">>,
     <<"f","r","o","n","t","e","n","d"," ","e","n","g","i","n","e","e","r">>, <<"f","u","l","l"," ","s","t","a","c","k">>, <<"w","e","b"," ","d","e","v","e","l","o","p","e","r">>}
senior_keywords ==
    {<<"s","e","n","i","o","r">>, <<"l","e","a","d">>, <<"p","r","i","n","c","i","p","a","l">>, <<"s","t","a","f","f">>, <<"a","r","c","h","i","t","e","c","t">>, <<"m","a","n","a","g","e","r">>,
     <<"d","i","r","e","c","t","o","r">>, <<"h","e","a","d"," ","o","f">>}

\* [word for word in text.split() if len(word) > 2]
RECURSIVE LongWords(_)
LongWords(words) ==
    IF words = <<>> THEN <<>>
    ELSE IF Len(Head(words)) > 2 THEN <<Head(words)>> \o LongWords(Tail(words))
    ELSE LongWords(Tail(words))

\* word_matches after the two loops of lines 505-510
RECURSIVE WordMatches(_, _)
WordMatches(pairs, user_words_job_words) ==
    IF pairs = {} THEN 0
    ELSE LET pr == CHOOSE x \in pairs : TRUE
             user_word == user_words_job_words[1][pr[1]]
             job_word == user_words_job_words[2][pr[2]]
             one == IF user_word = job_word THEN 3
                    ELSE IF Contains(job_word, user_word) \/ Contains(user_word, job_word)
                         THEN 1 ELSE 0
         IN  one + WordMatches(pairs \ {pr}, user_words_job_words)

\* What one pass of the loop of lines 467-526 adds to total_score, in parts
\* of a point.  The titles the model gives hold no phone number, no e-mail
\* address and no word in certif-, so that the substitutions of lines
\* 470-474 leave only strip and lower to do.
TitleContribution(job_title_lower, user_job) ==
    LET user_job_clean == lower(strip(user_job))
        user_is_data_role == AnyIn(data_engineering_keywords, user_job_clean)
        job_is_data_role == AnyIn(data_engineering_keywords, job_title_lower)
        user_is_software_role == AnyIn(software_engineering_keywords, user_job_clean)
        job_is_software_role == AnyIn(software_engineering_keywords, job_title_lower)
        role == IF user_is_data_role /\ job_is_data_role THEN 80
                ELSE IF user_is_software_role /\ job_is_software_role THEN 70
                ELSE IF user_is_data_role /\ job_is_software_role THEN 20
                ELSE IF user_is_software_role /\ job_is_data_role THEN 25
                ELSE 0
        user_words == LongWords(split(user_job_clean))
        job_words == LongWords(split(job_title_lower))
        word_matches == WordMatches((1..Len(user_words)) \X (1..Len(job_words)),
                                    <<user_words, job_words>>)
        word_score == IF user_words # <<>>
                      THEN Least(20 * TitleScale,
                                 (word_matches * 20 * TitleScale) \div Len(user_words))
                      ELSE 0
        user_is_senior == AnyIn(senior_keywords, user_job_clean)
        job_is_senior == AnyIn(senior_keywords, job_title_lower)
        seniority == IF user_is_senior /\ job_is_senior THEN 15
                     ELSE IF ~user_is_senior /\ ~job_is_senior THEN 5
                     ELSE 0
    IN  IF user_job = <<>> \/ Len(user_job_clean) < 3 THEN 0
        ELSE IF \/ Contains(job_title_lower, user_job_clean)
                \/ Contains(user_job_clean, job_title_lower)
             THEN (role + 30) * TitleScale
        ELSE role * TitleScale + word_score + seniority * TitleScale

\* total_score after the loop over user_jobs
RECURSIVE TitleTotal(_, _)
TitleTotal(job_title_lower, user_jobs) ==
    IF user_jobs = <<>> THEN 0
    ELSE TitleContribution(job_title_lower, Head(user_jobs))
         + TitleTotal(job_title_lower, Tail(user_jobs))

\* the mean of the contributions instead of their sum
_calculate_job_title_relevance_averaged(job_title, user_jobs) ==
    IF user_jobs = <<>> \/ job_title = <<>> THEN 0
    ELSE Least(100 * TitleScale,
               TitleTotal(lower(job_title), user_jobs) \div Len(user_jobs))

\* _calculate_job_title_relevance, in parts of a point
_calculate_job_title_relevance(job_title, user_jobs) ==
    IF user_jobs = <<>> \/ job_title = <<>> THEN 0
    ELSE Least(100 * TitleScale, TitleTotal(lower(job_title), user_jobs))

\* int(re.search(r'(\d+)', text).group(1)), 0 when the text holds no digit
FirstNumber(text) ==
    LET IsDigit(c) == \E d \in 1..Len(DigitChars) : DigitChars[d] = c
        DigitOf(c) == (CHOOSE d \in 1..Len(DigitChars) : DigitChars[d] = c) - 1
        starts == {i \in 1..Len(text) : IsDigit(text[i])}
        RECURSIVE Value(_, _)
        Value(i, acc) ==
            IF i <= Len(text) /\ IsDigit(text[i])
            THEN Value(i + 1, acc * 10 + DigitOf(text[i]))
            ELSE acc
    IN  IF starts = {} THEN 0 ELSE Value(SetMin(starts), 0)

\* user_levels and ideal_score of the bracket of experience_years
Bracket(experience_years) ==
    IF experience_years >= 15
    THEN [user_levels |-> {<<"p","r","i","n","c","i","p","a","l">>, <<"s","t","a","f","f">>, <<"d","i","r","e","c","t","o","r">>, <<"v","p">>, <<"s","e","n","i","o","r">>, <<"l","e","a","d">>},
          ideal_score |-> 100]
    ELSE IF experience_years >= 10
    THEN [user_levels |-> {<<"s","e","n","i","o","r">>, <<"l","e","a","d">>, <<"p","r","i","n","c","i","p","a","l">>, <<"s","t","a","f","f">>}, ideal_score |-> 95]
    ELSE IF experience_years >= 7
    THEN [user_levels |-> {<<"s","e","n","i","o","r">>, <<"l","e","a","d">>, <<"m","i","d">>, <<"i","n","t","e","r","m","e","d","i","a","t","e">>}, ideal_score |-> 90]
    ELSE IF experience_years >= 5
    THEN [user_levels |-> {<<"s","e","n","i","o","r">>, <<"m","i","d">>, <<"i","n","t","e","r","m","e","d","i","a","t","e">>}, ideal_score |-> 85]
    ELSE IF experience_years >= 3
    THEN [user_levels |-> {<<"m","i","d">>, <<"i","n","t","e","r","m","e","d","i","a","t","e">>, <<"s","e","n","i","o","r">>}, ideal_score |-> 80]
    ELSE IF experience_years >= 1
    THEN [user_levels |-> {<<"j","u","n","i","o","r">>, <<"m","i","d">>, <<"i","n","t","e","r","m","e","d","i","a","t","e">>, <<"e","n","t","r","y">>}, ideal_score |-> 75]
    ELSE [user_levels |-> {<<"e","n","t","r","y">>, <<"j","u","n","i","o","r">>, <<"g","r","a","d","u","a","t","e">>, <<"i","n","t","e","r","n">>}, ideal_score |-> 70]

\* _calculate_experience_match
_calculate_experience_match(job_experience_level, user_experience) ==
    LET experience_years == FirstNumber(user_experience)
        job_level_lower == lower(job_experience_level)
        bracket == Bracket(experience_years)
    IN  IF user_experience = <<>> THEN 50
        ELSE IF AnyIn(bracket.user_levels, job_level_lower) THEN bracket.ideal_score
        ELSE IF experience_years >= 8 /\ AnyIn({<<"s","e","n","i","o","r">>, <<"l","e","a","d">>}, job_level_lower) THEN 85
        ELSE IF experience_years >= 3 /\ AnyIn({<<"m","i","d">>, <<"i","n","t","e","r","m","e","d","i","a","t","e">>}, job_level_lower) THEN 80
        ELSE IF experience_years <= 2 /\ AnyIn({<<"j","u","n","i","o","r">>, <<"e","n","t","r","y">>}, job_level_lower) THEN 75
        ELSE 60

data_engineering_skills ==
    {<<"p","y","t","h","o","n">>, <<"s","q","l">>, <<"s","p","a","r","k">>, <<"k","a","f","k","a">>, <<"a","i","r","f","l","o","w">>, <<"s","n","o","w","f","l","a","k","e">>, <<"a","w","s">>,
     <<"a","z","u","r","e">>, <<"g","c","p">>, <<"e","t","l">>, <<"d","a","t","a"," ","p","i","p","e","l","i","n","e">>, <<"b","i","g"," ","d","a","t","a">>, <<"h","a","d","o","o","p">>,
     <<"h","i","v","e">>, <<"c","a","s","s","a","n","d","r","a">>, <<"e","l","a","s","t","i","c","s","e","a","r","c","h">>, <<"m","o","n","g","o","d","b">>, <<"p","o","s","t","g","r","e","s","q","l">>,
     <<"m","y","s","q","l">>, <<"r","e","d","s","h","i","f","t">>, <<"d","a","t","a","b","r","i","c","k","s">>, <<"d","b","t">>, <<"t","e","r","r","a","f","o","r","m">>, <<"d","o","c","k","e","r">>,
     <<"k","u","b","e","r","n","e","t","e","s">>}
architecture_skills ==
    {<<"m","i","c","r","o","s","e","r","v","i","c","e","s">>, <<"s","y","s","t","e","m"," ","d","e","s","i","g","n">>, <<"d","i","s","t","r","i","b","u","t","e","d"," ","s","y","s","t","e","m","s">>,
     <<"c","l","o","u","d"," ","a","r","c","h","i","t","e","c","t","u","r","e">>, <<"s","o","l","u","t","i","o","n"," ","a","r","c","h","i","t","e","c","t">>, <<"d","a","t","a"," ","a","r","c","h","i","t","e","c","t","u","r","e">>,
     <<"a","p","i"," ","d","e","s","i","g","n">>, <<"s","c","a","l","a","b","i","l","i","t","y">>, <<"p","e","r","f","o","r","m","a","n","c","e">>}
critical_data_skills ==
    {<<"p","y","t","h","o","n">>, <<"s","q","l">>, <<"s","p","a","r","k">>, <<"k","a","f","k","a">>, <<"a","w","s">>, <<"a","z","u","r","e">>, <<"a","i","r","f","l","o","w">>, <<"s","n","o","w","f","l","a","k","e">>}

\* the greatest of a non-empty set of numbers
Greatest(S) == CHOOSE x \in S : \A y \in S : y <= x

\* Twice the skill_score one pass of the loop of lines 609-646 adds to
\* total_score; 0 for a skill the loop skips.
SkillScore(job, skill) ==
    LET skill_lower == strip(lower(skill))
        job_description == lower(job.description)
        job_title == lower(job.title)
        is_data == AnyIn(data_engineering_skills, skill_lower)
        is_architecture == AnyIn(architecture_skills, skill_lower)
        required == IF \E i \in 1..Len(job.required_skills) :
                          \/ Contains(lower(job.required_skills[i]), skill_lower)
                          \/ Contains(skill_lower, lower(job.required_skills[i]))
                    THEN IF is_data THEN 15 ELSE IF is_architecture THEN 12 ELSE 8
                    ELSE 0
        in_title == IF Contains(job_title, skill_lower)
                    THEN IF is_data THEN 12 ELSE 6
                    ELSE 0
        in_description == IF Contains(job_description, skill_lower)
                          THEN IF is_data THEN 8 ELSE 3
                          ELSE 0
        skill_score == Greatest({required, in_title, in_description})
    IN  IF Len(skill_lower) < 2 THEN 0
        ELSE IF AnyIn(critical_data_skills, skill_lower) THEN 3 * skill_score
        ELSE 2 * skill_score

\* twice total_score, and skill_matches, after the loop over user_skills
RECURSIVE SkillTotals(_, _)
SkillTotals(job, user_skills) ==
    IF user_skills = <<>> THEN [total_score |-> 0, skill_matches |-> 0]
    ELSE LET rest == SkillTotals(job, Tail(user_skills))
             one == SkillScore(job, Head(user_skills))
         IN  [total_score |-> rest.total_score + one,
              skill_matches |-> rest.skill_matches + (IF one > 0 THEN 1 ELSE 0)]

\* _calculate_skills_match: the score is num / den
_calculate_skills_match(job, user_skills) ==
    IF user_skills = <<>> THEN [num |-> 0, den |-> 1]
    ELSE LET totals == SkillTotals(job, user_skills)
             den == 2 * Len(user_skills)
         IN  [num |-> Least(100 * den, totals.total_score * 8 + totals.skill_matches * 60),
              den |-> den]

MaxUserJobs == 2     \* the most titles of a candidate
MaxUserSkills == 2   \* the most skills of a candidate

ScoredTitles ==
    {<<>>, <<"S","e","n","i","o","r"," ","D","a","t","a"," ","E","n","g","i","n","e","e","r">>, <<"S","o","f","t","w","a","r","e"," ","D","e","v","e","l","o","p","e","r">>, <<"J","a","v","a"," ","D","e","v","e","l","o","p","e","r"," ","L","e","a","d">>,
     <<"D","a","t","a"," ","P","l","a","t","f","o","r","m"," ","M","a","n","a","g","e","r">>}
ScoredUserJobs ==
    {<<>>, <<"Q","A">>, <<"D","a","t","a"," ","E","n","g","i","n","e","e","r">>, <<"S","e","n","i","o","r"," ","S","o","f","t","w","a","r","e"," ","E","n","g","i","n","e","e","r">>, <<"J","a","v","a"," ","D","e","v","e","l","o","p","e","r">>,
     <<"L","e","a","d"," ","D","a","t","a"," ","A","r","c","h","i","t","e","c","t">>}
ScoredLevels ==
    {<<>>, <<"N","o","t"," ","s","p","e","c","i","f","i","e","d">>, <<"S","e","n","i","o","r">>, <<"M","i","d","-","l","e","v","e","l">>, <<"E","n","t","r","y"," ","l","e","v","e","l">>, <<"J","u","n","i","o","r">>,
     <<"L","e","a","d">>, <<"V","P">>, <<"I","n","t","e","r","n","s","h","i","p">>}
ScoredExperiences ==
    {<<>>, <<"e","x","p","e","r","i","e","n","c","e","d">>, <<"1"," ","y","e","a","r">>, <<"2"," ","y","e","a","r","s">>, <<"4"," ","y","e","a","r","s">>, <<"6"," ","y","e","a","r","s">>, <<"8","+"," ","y","e","a","r","s">>,
     <<"1","2"," ","y","e","a","r","s">>, <<"2","0"," ","y","e","a","r","s">>}
ScoredSkills == {<<"P","y","t","h","o","n">>, <<"S","Q","L">>, <<"J","a","v","a">>, <<"M","i","c","r","o","s","e","r","v","i","c","e","s">>, <<"R">>, <<"E","x","c","e","l">>}
ScoredPostings ==
    {[title |-> <<"P","y","t","h","o","n"," ","D","e","v","e","l","o","p","e","r">>, description |-> <<"p","y","t","h","o","n"," ","a","n","d"," ","s","q","l">>,
      required_skills |-> <<<<"P","y","t","h","o","n">>, <<"S","Q","L">>>>],
     [title |-> <<"J","a","v","a"," ","D","e","v","e","l","o","p","e","r">>, description |-> <<"j","a","v","a"," ","m","i","c","r","o","s","e","r","v","i","c","e","s">>,
      required_skills |-> <<<<"J","a","v","a">>, <<"M","i","c","r","o","s","e","r","v","i","c","e","s">>>>],
     [title |-> <<"A","n","a","l","y","s","t">>, description |-> <<"e","x","c","e","l">>, required_skills |-> <<>>],
     [title |-> <<>>, description |-> <<>>, required_skills |-> <<<<>>>>]}

\* one call of _calculate_job_title_relevance
TitleRelevance(job_title, user_jobs) ==
    /\ last' = [Did("title_relevance", NoProfile, "", <<>>, None, TRUE)
                  EXCEPT !.args = [job_title |-> job_title, user_jobs |-> user_jobs,
                                   score |-> _calculate_job_title_relevance(job_title, user_jobs)]]
    /\ UNCHANGED <<now, cache, stats, user_sessions, env, gathering, lock, threads, set_keys>>

\* one call of _calculate_experience_match
ExperienceMatch(job_experience_level, user_experience) ==
    /\ last' = [Did("experience_match", NoProfile, "", <<>>, None, TRUE)
                  EXCEPT !.args = [job_experience_level |-> job_experience_level,
                                   user_experience |-> user_experience,
                                   score |-> _calculate_experience_match(job_experience_level,
                                                                         user_experience)]]
    /\ UNCHANGED <<now, cache, stats, user_sessions, env, gathering, lock, threads, set_keys>>

\* one call of _calculate_skills_match
SkillsMatch(job, user_skills) ==
    /\ last' = [Did("skills_match", NoProfile, "", <<>>, None, TRUE)
                  EXCEPT !.args = [job |-> job, user_skills |-> user_skills,
                                   score |-> _calculate_skills_match(job, user_skills)]]
    /\ UNCHANGED <<now, cache, stats, user_sessions, env, gathering, lock, threads, set_keys>>

InitScores ==
    /\ now = 0
    /\ cache = EmptyDict
    /\ stats = ZeroStats
    /\ user_sessions = EmptyDict
    /\ env = FullEnv
    /\ lock = FreeLocks
    /\ threads = IdleThreads
    /\ gathering = NotGathering
    /\ set_keys = {}
    /\ last = InitLast

\* one of the three functions is called once, with any arguments
NextScores ==
    \/ /\ last.op = "init"
       /\ \E job_title \in ScoredTitles :
             \E n \in 0..MaxUserJobs : \E user_jobs \in [1..n -> ScoredUserJobs] :
                TitleRelevance(job_title, user_jobs)
    \/ /\ last.op = "init"
       /\ \E job_experience_level \in ScoredLevels : \E user_experience \in ScoredExperiences :
             ExperienceMatch(job_experience_level, user_experience)
    \/ /\ last.op = "init"
       /\ \E job \in ScoredPostings :
             \E n \in 0..MaxUserSkills : \E user_skills \in [1..n -> ScoredSkills] :
                SkillsMatch(job, user_skills)

SpecScores == InitScores /\ [][NextScores]_vars

\* every keyword of every bracket of _calculate_experience_match
BracketKeywords ==
    UNION {Bracket(experience_years).user_levels : experience_years \in {0, 1, 3, 5, 7, 10, 15}}

(* C23: the three sub-scores.  Each of _calculate_skills_match,            *)
(* _calculate_job_title_relevance and _calculate_experience_match returns  *)
(* a number from 0 to 100.  The title score of a list of titles is the sum *)
(* of the scores of its titles taken one by one, capped at 100, and not    *)
(* their mean.  The experience score is 50 when the candidate's experience *)
(* text is empty, and 60 when the text is not empty and the posting's      *)
(* experience level holds no keyword of any bracket.                       *)
C23_SubScores ==
    /\ last.op = "title_relevance" =>
          LET a == last.args
              Alone(i) == _calculate_job_title_relevance(a.job_title, <<a.user_jobs[i]>>)
              RECURSIVE SumAlone(_)
              SumAlone(i) == IF i = 0 THEN 0 ELSE Alone(i) + SumAlone(i - 1)
          IN  /\ a.score \in 0..(100 * TitleScale)
              /\ a.score = Least(100 * TitleScale, SumAlone(Len(a.user_jobs)))
    /\ last.op = "experience_match" =>
          LET a == last.args
          IN  /\ a.score \in 0..100
              /\ a.user_experience = <<>> => a.score = 50
              /\ (a.user_experience # <<>>
                    /\ ~AnyIn(BracketKeywords, lower(a.job_experience_level)))
                 => a.score = 60
    /\ last.op = "skills_match" =>
          LET a == last.args
          IN  /\ a.score.den > 0
              /\ a.score.num \in 0..(100 * a.score.den)

\* two weak titles together outweigh each of them and stay under the cap
C23_Witness ==
    /\ last.op = "title_relevance"
    /\ Len(last.args.user_jobs) = 2
    /\ last.args.score < 100 * TitleScale
    /\ \A i \in 1..2 :
          LET alone == _calculate_job_title_relevance(last.args.job_title,
                                                      <<last.args.user_jobs[i]>>)
          IN  0 < alone /\ alone < last.args.score


----------------------------------------------------------------------------
(* JobAggregator.search_all_apis step by step: the tasks in flight         *)

MaxTasks == 4   \* the clients of JobAggregator.apis
MaxWait == 2    \* the time the model lets pass while the tasks are in flight

\* Of each search task, whether its provider never answers.  The client of
\* the Dutch boards makes no request (lines 545-557), so it always returns.
SilentChoices(tasks) ==
    {silent \in [1..Len(tasks) -> BOOLEAN] :
        \A i \in 1..Len(tasks) : tasks[i] = "netherlands" => ~silent[i]}

\* Lines 388-415: search_all_apis is called and creates its tasks.  silent
\* tells which providers never answer; a is what the others answer, and
\* parsed what search_jobs of the client makes of that answer.
StartSearch(query, country, a, silent) ==
    /\ gathering.pc = "idle"
    /\ LET tasks == SearchTasks(env, country)
       IN  gathering' = [pc |-> "gather",
                         query |-> query, country |-> country, answers |-> a,
                         tasks |-> [i \in 1..Len(tasks) |->
                                      [api |-> tasks[i], silent |-> silent[i],
                                       parsed |-> ClientResult(tasks[i], env, query, a),
                                       state |-> "pending", result |-> <<>>]]]
    /\ UNCHANGED <<now, cache, stats, user_sessions, env, lock, threads, set_keys, last>>

\* The provider of task i answers and search_jobs of the client returns:
\* the coroutine awaits the response (session.get without a timeout
\* argument, lines 108, 214, 300) and parses it.
TaskReturns(i) ==
    /\ gathering.pc = "gather"
    /\ i \in 1..Len(gathering.tasks)
    /\ gathering.tasks[i].state = "pending"
    /\ ~gathering.tasks[i].silent
    /\ gathering' = [gathering EXCEPT
                       !.tasks[i].state = "done",
                       !.tasks[i].result = gathering.tasks[i].parsed]
    /\ UNCHANGED <<now, cache, stats, user_sessions, env, lock, threads, set_keys, last>>

\* Time passes while the tasks are in flight; search_all_apis reads no clock.
Waiting ==
    /\ gathering.pc = "gather"
    /\ now < MaxWait
    /\ now' = now + 1
    /\ UNCHANGED <<cache, stats, user_sessions, env, lock, threads, set_keys, last, gathering>>

\* Lines 417-428: await asyncio.gather(*tasks, return_exceptions=True)
\* resumes when every task is done; the results are collected, the
\* duplicates removed and the list sorted and returned.
GatherReturns ==
    /\ gathering.pc = "gather"
    /\ \A i \in 1..Len(gathering.tasks) : gathering.tasks[i].state = "done"
    /\ LET results == [i \in 1..Len(gathering.tasks) |-> gathering.tasks[i].result]
           all_jobs == gather(results)
           jobs == sorted_by_match_score(_remove_duplicates(all_jobs))
       IN  last' = [Did("search", NoProfile, "", <<>>, Some(jobs), TRUE)
                      EXCEPT !.calls = <<[i \in 1..Len(gathering.tasks) |->
                                            gathering.tasks[i].api]>>,
                             !.args = [query |-> gathering.query,
                                       country |-> gathering.country,
                                       answers |-> gathering.answers]]
    /\ gathering' = [gathering EXCEPT !.pc = "returned"]
    /\ UNCHANGED <<now, cache, stats, user_sessions, env, lock, threads, set_keys>>

InitGather ==
    /\ now = 0
    /\ cache = EmptyDict
    /\ stats = ZeroStats
    /\ user_sessions = EmptyDict
    /\ env = FullEnv
    /\ lock = FreeLocks
    /\ threads = IdleThreads
    /\ gathering = NotGathering
    /\ set_keys = {}
    /\ last = InitLast

\* search_all_apis is called once; its tasks return in any order, those of
\* silent providers never
NextGather ==
    \/ \E query \in Queries : \E country \in Countries : \E a \in Feeds :
          \E silent \in SilentChoices(SearchTasks(env, country)) :
             StartSearch(query, country, a, silent)
    \/ \E i \in 1..MaxTasks : TaskReturns(i)
    \/ Waiting
    \/ GatherReturns

\* The event loop runs every coroutine that can go on: a task whose
\* provider has answered returns, and gather resumes once it can.  Time
\* goes on.
FairGather ==
    /\ \A i \in 1..MaxTasks : WF_vars(TaskReturns(i))
    /\ WF_vars(Waiting)
    /\ WF_vars(GatherReturns)

SpecGather == InitGather /\ [][NextGather]_vars /\ FairGather

\* every task whose provider answers is done, and time is up
RespondersDone ==
    /\ gathering.pc = "gather"
    /\ now = MaxWait
    /\ \A i \in 1..Len(gathering.tasks) :
          gathering.tasks[i].silent \/ gathering.tasks[i].state = "done"

\* search_all_apis has returned what the answering clients returned
ReturnedTheirPostings ==
    /\ gathering.pc = "returned"
    /\ last.op = "search"
    /\ \A i \in 1..Len(gathering.tasks) :
          gathering.tasks[i].state = "done" =>
             \A k \in 1..Len(gathering.tasks[i].result) :
                \E j \in 1..Len(last.res.jobs) :
                   NormKey(last.res.jobs[j]) = NormKey(gathering.tasks[i].result[k])

====
